---- MODULE Spec2Model ----
(***************************************************************************)
(* PropFlow: the prop lineage engine.  GraphBuilder.buildPropChain walks   *)
(* from a component/prop to the components that pass it, one parent search *)
(* per hop, through ASTAnalyzer's per-file syntax trees and parse cache.   *)
(*                                                                         *)
(* Text (attribute values, prop names) is a sequence of one-character      *)
(* strings, so that the regular expressions of the source are computed on  *)
(* the characters.  Component names and file paths are only ever compared  *)
(* for equality and are plain strings.                                     *)
(***************************************************************************)
EXTENDS Integers, Sequences, FiniteSets, TLC

\* ------------------------------------------------------------------ bounds

\* Number of buildPropChain calls made on one GraphBuilder while the files
\* stay as they are.
MaxCalls == 2

\* Number of times a file of the workspace is rewritten in a behaviour.
MaxEdits == 1

\* GraphBuilder.maxDepth
MaxDepth == 20

\* Number of nested resolveTypeToProps calls the call stack has room for.  No
\* chain of type declarations modelled is that long unless it is a cycle.
StackDepth == 6

\* ------------------------------------------------------------------- text

Letters ==
  { "a","b","c","d","e","f","g","h","i","j","k","l","m",
    "n","o","p","q","r","s","t","u","v","w","x","y","z",
    "A","B","C","D","E","F","G","H","I","J","K","L","M",
    "N","O","P","Q","R","S","T","U","V","W","X","Y","Z" }

Digits == { "0","1","2","3","4","5","6","7","8","9" }

\* \w of a JavaScript regular expression: [A-Za-z0-9_]
IsWordChar(c) == c \in Letters \cup Digits \cup {"_"}

\* \s, for the white space that the modelled texts use
IsSpace(c) == c \in {" ", "\t", "\n"}

\* String.prototype.startsWith, on one-character prefixes and longer
StartsWith(s, prefix) ==
  /\ Len(s) >= Len(prefix)
  /\ SubSeq(s, 1, Len(prefix)) = prefix

\* s without its first n characters
Drop(s, n) == SubSeq(s, n + 1, Len(s))

\* the longest prefix of s made of word characters
RECURSIVE WordPrefix(_)
WordPrefix(s) ==
  IF s = <<>> \/ ~IsWordChar(Head(s)) THEN <<>>
  ELSE <<Head(s)>> \o WordPrefix(Tail(s))

\* s without its leading white space
RECURSIVE SkipSpaces(_)
SkipSpaces(s) ==
  IF s # <<>> /\ IsSpace(Head(s)) THEN SkipSpaces(Tail(s)) ELSE s

\* value.match(/^{?\s*(\w+)\s*}?$/): [matched, group], group being match[1]
MatchSimpleIdentifier(value) ==
  LET afterBrace == IF value # <<>> /\ Head(value) = "{" THEN Tail(value) ELSE value
      afterSpace == SkipSpaces(afterBrace)
      word       == WordPrefix(afterSpace)
      rest       == SkipSpaces(Drop(afterSpace, Len(word)))
  IN  [ matched |-> word # <<>> /\ (rest = <<>> \/ rest = <<"}">>),
        group   |-> word ]

PropsDot == <<"p","r","o","p","s",".">>

\* value.match(/props\.(\w+)/): the leftmost place where "props." is followed by
\* a word character; [matched, group]
RECURSIVE MatchPropsAccess(_)
MatchPropsAccess(value) ==
  IF value = <<>> THEN [matched |-> FALSE, group |-> <<>>]
  ELSE IF StartsWith(value, PropsDot) /\ WordPrefix(Drop(value, Len(PropsDot))) # <<>>
       THEN [matched |-> TRUE, group |-> WordPrefix(Drop(value, Len(PropsDot)))]
       ELSE MatchPropsAccess(Tail(value))

\* /^\d+$/.test(value)
IsAllDigits(value) ==
  /\ value # <<>>
  /\ \A i \in 1..Len(value) : value[i] \in Digits

\* the reserved text "{...spread}"
SpreadSentinel == <<"{",".",".",".","s","p","r","e","a","d","}">>

\* the text "unknown"
Unknown == <<"u","n","k","n","o","w","n">>

TrueText == <<"t","r","u","e">>
FalseText == <<"f","a","l","s","e">>

\* A value that is null in the source (a brace-wrapped attribute with no
\* expression) is the empty text: the source only ever tests it with !value,
\* which the empty string satisfies as well.
NullValue == <<>>

\* ------------------------------------------------- GraphBuilder, pure parts

\* extractPropName with a string literal's quotes stripped
extractPropNameUnquoted(value) ==
  IF value = NullValue THEN Unknown
  ELSE IF value = SpreadSentinel THEN SpreadSentinel
  ELSE IF Len(value) >= 2 /\ Head(value) = "\"" /\ value[Len(value)] = "\""
       THEN SubSeq(value, 2, Len(value) - 1)
  ELSE IF MatchSimpleIdentifier(value).matched THEN MatchSimpleIdentifier(value).group
  ELSE IF MatchPropsAccess(value).matched THEN MatchPropsAccess(value).group
  ELSE value

\* extractPropName without its test for the spread sentinel
extractPropNameNoSentinel(value) ==
  IF value = NullValue \/ value = SpreadSentinel THEN Unknown
  ELSE IF MatchSimpleIdentifier(value).matched THEN MatchSimpleIdentifier(value).group
  ELSE IF MatchPropsAccess(value).matched THEN MatchPropsAccess(value).group
  ELSE value

\* GraphBuilder.extractPropName
extractPropName(value) ==
  IF value = NullValue THEN Unknown
  ELSE IF value = SpreadSentinel THEN SpreadSentinel
  ELSE IF MatchSimpleIdentifier(value).matched THEN MatchSimpleIdentifier(value).group
  ELSE IF MatchPropsAccess(value).matched THEN MatchPropsAccess(value).group
  ELSE value

\* GraphBuilder.determineNodeType
determineNodeType(value) ==
  IF value = NullValue THEN "SOURCE"
  ELSE IF \/ StartsWith(value, <<"\"">>)
          \/ StartsWith(value, <<"'">>)
          \/ value = TrueText
          \/ value = FalseText
          \/ IsAllDigits(value)
       THEN "SOURCE"
       ELSE "USAGE"

\* --------------------------------------------------------- syntax trees
\* A parsed file (ts-morph SourceFile), reduced to what the engine reads:
\*   decls : the top-level declarations in document order (see below)
\*   tags  : the JSX opening and self-closing elements in document order,
\*           [kind, name, line, attrs]; kind is "opening" or "selfClosing"
\* An attribute is [kind, name, line, init, text]: kind "attr" or "spread";
\* init is the initializer's syntax kind: "none" (bare attribute), "string"
\* (StringLiteral, text with its quotes), "expr" (JsxExpression, text of the
\* expression, NullValue when it has none) or "element" (any other kind).

Attr(name, line, init, text) ==
  [kind |-> "attr", name |-> name, line |-> line, init |-> init, text |-> text]

Spread(line) ==
  [kind |-> "spread", name |-> <<>>, line |-> line, init |-> "none", text |-> <<>>]

Tag(kind, name, line, attrs) ==
  [kind |-> kind, name |-> name, line |-> line, attrs |-> attrs]

\* A top-level declaration is [form, name, line, init, callee, arg, original,
\* target]:
\*   form "function" : function name(...) {...}
\*   form "variable" : const name = <init>; init is the initializer's kind:
\*                     "none", "arrow", "funcExpr", "call" or "literal"; for a
\*                     call, callee is the text of the called identifier or
\*                     property access (empty for any other callee) and arg the
\*                     kind of its first argument ("none" without arguments)
\*   form "class"    : class name ... {...}
\*   form "reexport" : export { original as name } from <specifier>; target is
\*                     the file the specifier resolves to, "" when it resolves
\*                     to none

FunctionDecl(name, line) ==
  [form |-> "function", name |-> name, line |-> line, init |-> "none",
   callee |-> <<>>, arg |-> "none", original |-> "", target |-> ""]

VariableDecl(name, line, init) ==
  [form |-> "variable", name |-> name, line |-> line, init |-> init,
   callee |-> <<>>, arg |-> "none", original |-> "", target |-> ""]

WrappedDecl(name, line, callee, arg) ==
  [form |-> "variable", name |-> name, line |-> line, init |-> "call",
   callee |-> callee, arg |-> arg, original |-> "", target |-> ""]

ClassDecl(name, line) ==
  [form |-> "class", name |-> name, line |-> line, init |-> "none",
   callee |-> <<>>, arg |-> "none", original |-> "", target |-> ""]

ReExportDecl(name, original, line, target) ==
  [form |-> "reexport", name |-> name, line |-> line, init |-> "none",
   callee |-> <<>>, arg |-> "none", original |-> original, target |-> target]

\* the characters of the names that the modelled files declare
NameText ==
  [ App    |-> <<"A","p","p">>,
    Child  |-> <<"C","h","i","l","d">>,
    Parent |-> <<"P","a","r","e","n","t">>,
    Panel  |-> <<"P","a","n","e","l">>,
    helper |-> <<"h","e","l","p","e","r">> ]

UpperLetters ==
  { "A","B","C","D","E","F","G","H","I","J","K","L","M",
    "N","O","P","Q","R","S","T","U","V","W","X","Y","Z" }

\* /^[A-Z]/.test(name)
StartsUppercase(name) == Head(NameText[name]) \in UpperLetters

\* String.prototype.endsWith
EndsWith(s, suffix) ==
  /\ Len(s) >= Len(suffix)
  /\ SubSeq(s, Len(s) - Len(suffix) + 1, Len(s)) = suffix

MemoText == <<"m","e","m","o">>
ForwardRefText == <<"f","o","r","w","a","r","d","R","e","f">>
ReactDot == <<"R","e","a","c","t",".">>
ObserverText == <<"o","b","s","e","r","v","e","r">>
ConnectText == <<"c","o","n","n","e","c","t">>

\* ASTAnalyzer.extractComponentFromVariable: wrapperFunctions
wrapperFunctions ==
  << MemoText, ForwardRefText, ReactDot \o MemoText, ReactDot \o ForwardRefText,
     ObserverText, ConnectText >>

\* ASTAnalyzer.extractComponentFromFunction: whether it returns an entry
extractComponentFromFunction(func) == StartsUppercase(func.name)

\* ASTAnalyzer.extractComponentFromVariable: whether it returns an entry
extractComponentFromVariable(varDecl) ==
  /\ StartsUppercase(varDecl.name)
  /\ varDecl.init # "none"
  /\ \/ varDecl.init \in {"arrow", "funcExpr"}
     \/ /\ varDecl.init = "call"
        /\ \E i \in 1..Len(wrapperFunctions) :
             EndsWith(varDecl.callee, wrapperFunctions[i])
        /\ varDecl.arg \in {"arrow", "funcExpr"}

\* the ComponentInfo of a declaration, reduced to the fields the engine reads
Info(decl) == [name |-> decl.name, line |-> decl.line]

InfoOfEach(decls) == [i \in 1..Len(decls) |-> Info(decls[i])]

\* ASTAnalyzer.analyzeFile, "Find function components": sourceFile.getFunctions()
\* yields the top-level function declarations
FunctionComponents(sourceFile) ==
  LET IsComponent(d) == d.form = "function" /\ extractComponentFromFunction(d)
  IN  InfoOfEach(SelectSeq(sourceFile.decls, IsComponent))

\* ASTAnalyzer.analyzeFile, "Find arrow function components"
VariableComponents(sourceFile) ==
  LET IsComponent(d) == d.form = "variable" /\ extractComponentFromVariable(d)
  IN  InfoOfEach(SelectSeq(sourceFile.decls, IsComponent))

\* sourceFile.getExportDeclarations()
ExportDeclarations(sourceFile) ==
  LET IsExport(d) == d.form = "reexport"
  IN  SelectSeq(sourceFile.decls, IsExport)

Abs(n) == IF n < 0 THEN -n ELSE n

\* ASTAnalyzer.findPropUsageAtLocation, "Find the closest one": the first
\* element of matching whose line distance to nearLine is strictly smaller
\* than that of every element before it and no greater than any after it
RECURSIVE ClosestFrom(_, _, _)
ClosestFrom(matching, nearLine, best) ==
  IF matching = <<>> THEN best
  ELSE IF Abs(Head(matching).line - nearLine) < Abs(best.line - nearLine)
       THEN ClosestFrom(Tail(matching), nearLine, Head(matching))
       ELSE ClosestFrom(Tail(matching), nearLine, best)

NoUsage ==
  [found |-> FALSE, line |-> 0, value |-> NullValue, via |-> "none",
   tag |-> Tag("none", "", 0, <<>>)]

\* ASTAnalyzer.findPropUsageAtLocation, the loop over the attributes: the
\* first attribute named propName whose initializer is absent, a string
\* literal or a brace-wrapped expression
RECURSIVE ScanAttributes(_, _, _)
ScanAttributes(attrs, propName, tag) ==
  IF attrs = <<>> THEN NoUsage
  ELSE LET attr == Head(attrs) IN
       IF attr.kind = "attr" /\ attr.name = propName /\ attr.init = "none"
       THEN [found |-> TRUE, line |-> attr.line, value |-> TrueText,
             via |-> "attr", tag |-> tag]
       ELSE IF attr.kind = "attr" /\ attr.name = propName
               /\ attr.init \in {"string", "expr"}
       THEN [found |-> TRUE, line |-> attr.line, value |-> attr.text,
             via |-> "attr", tag |-> tag]
       ELSE ScanAttributes(Tail(attrs), propName, tag)

\* InspectElement without the spread branch
InspectElementNoSpread(closestMatch, explicit) ==
  IF explicit.found THEN explicit ELSE NoUsage

\* ASTAnalyzer.findPropUsageAtLocation, from "Get attributes" on: the
\* explicit attribute when the loop finds one, else the sentinel when the
\* element carries a spread attribute, else null
InspectElement(closestMatch, explicit) ==
  IF explicit.found THEN explicit
  ELSE IF \E i \in 1..Len(closestMatch.attrs) : closestMatch.attrs[i].kind = "spread"
  THEN [found |-> TRUE, line |-> closestMatch.line, value |-> SpreadSentinel,
        via |-> "spread", tag |-> closestMatch]
  ELSE NoUsage

\* ASTAnalyzer.findPropUsageAtLocation, from "Find the closest one" on
InspectClosest(closestMatch, propName) ==
  InspectElement(closestMatch,
                 ScanAttributes(closestMatch.attrs, propName, closestMatch))

\* ASTAnalyzer.findPropUsageAtLocation, "Find matching components": the
\* opening elements in document order, then the self-closing ones
MatchingComponents(sourceFile, componentName) ==
  LET IsOpening(t) == t.kind = "opening" /\ t.name = componentName
      IsSelfClosing(t) == t.kind = "selfClosing" /\ t.name = componentName
  IN  SelectSeq(sourceFile.tags, IsOpening) \o SelectSeq(sourceFile.tags, IsSelfClosing)

\* UsageAmong inspecting the first matching element, whatever its line
UsageAmongFirst(matchingComponents, propName, nearLine) ==
  IF matchingComponents = <<>> THEN NoUsage
  ELSE InspectClosest(matchingComponents[1], propName)

\* ASTAnalyzer.findPropUsageAtLocation, after the elements are collected
UsageAmong(matchingComponents, propName, nearLine) ==
  IF matchingComponents = <<>> THEN NoUsage
  ELSE InspectClosest(ClosestFrom(matchingComponents, nearLine, matchingComponents[1]),
                      propName)

\* ASTAnalyzer.findPropUsageAtLocation.  The result's via and tag fields are
\* history: which branch produced the value, and the element inspected.
findPropUsageAtLocation(sourceFile, componentName, propName, nearLine) ==
  UsageAmong(MatchingComponents(sourceFile, componentName), propName, nearLine)

\* ASTAnalyzer.findPropUsage, the loop over the elements: the first element
\* named componentName that has the attribute or a spread attribute
RECURSIVE findPropUsageFrom(_, _, _)
findPropUsageFrom(jsxElements, componentName, propName) ==
  IF jsxElements = <<>> THEN NoUsage
  ELSE IF Head(jsxElements).name = componentName
          /\ InspectClosest(Head(jsxElements), propName).found
  THEN InspectClosest(Head(jsxElements), propName)
  ELSE findPropUsageFrom(Tail(jsxElements), componentName, propName)

\* ASTAnalyzer.findPropUsage: jsxElements are the descendants of kind
\* JsxOpeningElement
findPropUsage(sourceFile, componentName, propName) ==
  LET IsOpening(t) == t.kind = "opening"
  IN  findPropUsageFrom(SelectSeq(sourceFile.tags, IsOpening), componentName, propName)

\* GraphBuilder.findComponentAtLine, the loop: the component declared at the
\* greatest line not after `line`, the earlier of two declared on one line
\* ClosestComponent keeping the first component declared at or before the
\* line instead of the nearest
RECURSIVE ClosestComponentFirst(_, _, _)
ClosestComponentFirst(components, line, closest) ==
  IF components = <<>> THEN closest
  ELSE IF Head(components).line <= line /\ ~closest.found
  THEN ClosestComponentFirst(Tail(components), line,
                             [found |-> TRUE, name |-> Head(components).name,
                              line |-> Head(components).line])
  ELSE ClosestComponentFirst(Tail(components), line, closest)

RECURSIVE ClosestComponent(_, _, _)
ClosestComponent(components, line, closest) ==
  IF components = <<>> THEN closest
  ELSE LET comp == Head(components) IN
       IF comp.line <= line /\ (~closest.found \/ comp.line > closest.line)
       THEN ClosestComponent(Tail(components), line,
                             [found |-> TRUE, name |-> comp.name, line |-> comp.line])
       ELSE ClosestComponent(Tail(components), line, closest)

\* ------------------------------------------------------------ prop lists
\* Type syntax (ts-morph TypeNode), reduced to what the analyzer reads:
\* [kind, name, members, types].  A type literal has the names of its property
\* signatures as members; a type reference has its type name (getTypeName)
\* and its type arguments; an intersection, a union and a parenthesized type
\* have their operand types.  Text is a sequence of tokens.

TypeLiteral(members) ==
  [kind |-> "literal", name |-> <<>>, members |-> members, types |-> <<>>]

TypeReference(name, typeArguments) ==
  [kind |-> "reference", name |-> name, members |-> <<>>, types |-> typeArguments]

IntersectionType(types) ==
  [kind |-> "intersection", name |-> <<>>, members |-> <<>>, types |-> types]

UnionType(types) ==
  [kind |-> "union", name |-> <<>>, members |-> <<>>, types |-> types]

ParenthesizedType(type) ==
  [kind |-> "parenthesized", name |-> <<>>, members |-> <<>>, types |-> <<type>>]

\* no type annotation
NoTypeNode == [kind |-> "none", name |-> <<>>, members |-> <<>>, types |-> <<>>]

\* Node.getText() of a type node
RECURSIVE getText(_), TextOfEach(_, _)
getText(typeNode) ==
  CASE typeNode.kind = "literal" -> <<"{">> \o typeNode.members \o <<"}">>
    [] typeNode.kind = "reference" ->
         typeNode.name \o (IF typeNode.types = <<>> THEN <<>>
                           ELSE <<"<">> \o TextOfEach(typeNode.types, ",") \o <<">">>)
    [] typeNode.kind = "intersection" -> TextOfEach(typeNode.types, "&")
    [] typeNode.kind = "union" -> TextOfEach(typeNode.types, "|")
    [] typeNode.kind = "parenthesized" ->
         <<"(">> \o getText(typeNode.types[1]) \o <<")">>
    [] OTHER -> <<>>

TextOfEach(types, separator) ==
  IF types = <<>> THEN <<>>
  ELSE IF Len(types) = 1 THEN getText(types[1])
  ELSE getText(Head(types)) \o <<separator>> \o TextOfEach(Tail(types), separator)

\* The type declarations of a file: a type alias has a type node, an
\* interface its property names and the types it extends.
TypeAlias(name, typeNode) ==
  [form |-> "alias", name |-> name, typeNode |-> typeNode,
   properties |-> <<>>, extends |-> <<>>]

Interface(name, properties, extends) ==
  [form |-> "interface", name |-> name, typeNode |-> NoTypeNode,
   properties |-> properties, extends |-> extends]

\* the first declaration of the given form whose name is the text typeName
RECURSIVE DeclaredAs(_, _, _)
DeclaredAs(typeDecls, form, typeName) ==
  IF typeDecls = <<>>
  THEN [found |-> FALSE, decl |-> TypeAlias("", NoTypeNode)]
  ELSE IF Head(typeDecls).form = form /\ <<Head(typeDecls).name>> = typeName
  THEN [found |-> TRUE, decl |-> Head(typeDecls)]
  ELSE DeclaredAs(Tail(typeDecls), form, typeName)

\* sourceFile.getTypeAlias(typeName)
getTypeAlias(sourceFile, typeName) == DeclaredAs(sourceFile.types, "alias", typeName)

\* sourceFile.getInterface(typeName)
getInterface(sourceFile, typeName) == DeclaredAs(sourceFile.types, "interface", typeName)

\* typeName.match(/^(?:React\.)?<wrapper><(.+)>$/): the text between the
\* angle brackets
WrapperInner(text, wrapper) ==
  [matched |-> /\ Len(text) >= 4
               /\ text[1] = wrapper
               /\ text[2] = "<"
               /\ text[Len(text)] = ">",
   inner |-> IF Len(text) >= 4 THEN SubSeq(text, 3, Len(text) - 1) ELSE <<>>]

MatchWrapper(typeName, wrapper) ==
  IF Len(typeName) >= 2 /\ typeName[1] = "React" /\ typeName[2] = "."
  THEN WrapperInner(SubSeq(typeName, 3, Len(typeName)), wrapper)
  ELSE WrapperInner(typeName, wrapper)

\* [...new Set(props)]: the first occurrence of each name, in order
RECURSIVE UniqueFrom(_, _)
UniqueFrom(props, seen) ==
  IF props = <<>> THEN <<>>
  ELSE IF Head(props) \in seen THEN UniqueFrom(Tail(props), seen)
  ELSE <<Head(props)>> \o UniqueFrom(Tail(props), seen \cup {Head(props)})

Unique(props) == UniqueFrom(props, {})

\* the call stack ran out: a RangeError leaves every caller
Overflow == [overflow |-> TRUE, props |-> <<>>]

Resolved(props) == [overflow |-> FALSE, props |-> props]

\* props.push(...more), then [...new Set(props)] where the source has it
Pushed(props, more, unique) ==
  IF more.overflow THEN Overflow
  ELSE Resolved(IF unique THEN Unique(props \o more.props) ELSE props \o more.props)

RECURSIVE resolveTypeToProps(_, _, _), AliasProps(_, _, _), BranchProps(_, _, _),
          OneBranch(_, _, _), ExtendedProps(_, _, _)

\* ASTAnalyzer.resolveTypeToProps, stack being the room left on the call
\* stack
resolveTypeToProps(sourceFile, typeName, stack) ==
  IF stack = 0 THEN Overflow
  ELSE IF MatchWrapper(typeName, "PropsWithChildren").matched
  THEN Pushed(<<"children">>,
              resolveTypeToProps(sourceFile,
                                 MatchWrapper(typeName, "PropsWithChildren").inner,
                                 stack - 1),
              TRUE)
  ELSE IF MatchWrapper(typeName, "PropsWithRef").matched
  THEN Pushed(<<"ref">>,
              resolveTypeToProps(sourceFile,
                                 MatchWrapper(typeName, "PropsWithRef").inner,
                                 stack - 1),
              TRUE)
  ELSE IF /\ getTypeAlias(sourceFile, typeName).found
          /\ getTypeAlias(sourceFile, typeName).decl.typeNode.kind
               \in {"literal", "intersection", "union", "reference"}
  THEN AliasProps(sourceFile, getTypeAlias(sourceFile, typeName).decl.typeNode, stack)
  ELSE IF getInterface(sourceFile, typeName).found
  THEN Pushed(getInterface(sourceFile, typeName).decl.properties,
              ExtendedProps(sourceFile, getInterface(sourceFile, typeName).decl.extends,
                            stack),
              TRUE)
  ELSE Resolved(<<>>)

\* ASTAnalyzer.resolveTypeToProps, the branches on the alias's type node
AliasProps(sourceFile, aliasTypeNode, stack) ==
  IF aliasTypeNode.kind = "literal" THEN Resolved(aliasTypeNode.members)
  ELSE IF aliasTypeNode.kind = "reference"
  THEN resolveTypeToProps(sourceFile, getText(aliasTypeNode), stack - 1)
  ELSE Pushed(<<>>, BranchProps(sourceFile, aliasTypeNode.types, stack), TRUE)

\* ASTAnalyzer.resolveTypeToProps, types.forEach of an intersection or union
BranchProps(sourceFile, types, stack) ==
  IF types = <<>> THEN Resolved(<<>>)
  ELSE IF OneBranch(sourceFile, Head(types), stack).overflow THEN Overflow
  ELSE Pushed(OneBranch(sourceFile, Head(types), stack).props,
              BranchProps(sourceFile, Tail(types), stack), FALSE)

\* one operand: a type literal gives its members, a type reference is
\* resolved by its text, any other kind of node is passed over
OneBranch(sourceFile, typeNode, stack) ==
  IF typeNode.kind = "literal" THEN Resolved(typeNode.members)
  ELSE IF typeNode.kind = "reference"
  THEN resolveTypeToProps(sourceFile, getText(typeNode), stack - 1)
  ELSE Resolved(<<>>)

\* ASTAnalyzer.resolveTypeToProps, extendedTypes.forEach
ExtendedProps(sourceFile, extends, stack) ==
  IF extends = <<>> THEN Resolved(<<>>)
  ELSE IF resolveTypeToProps(sourceFile, getText(Head(extends)), stack - 1).overflow
  THEN Overflow
  ELSE Pushed(resolveTypeToProps(sourceFile, getText(Head(extends)), stack - 1).props,
              ExtendedProps(sourceFile, Tail(extends), stack), FALSE)

\* A component declaration as the prop extraction reads it: the first
\* parameter's name node (an object binding pattern with its element names,
\* or an identifier) and type node, and the type annotation of the variable.
\* form is "function" (a function declaration), "variable" (a variable whose
\* initializer is an arrow function or function expression) or "wrapped" (a
\* variable whose initializer is memo(...) and the like around one).
ObjectBindingPattern(elements, typeNode) ==
  [binding |-> "object", elements |-> elements, typeNode |-> typeNode]

IdentifierParameter(typeNode) ==
  [binding |-> "identifier", elements |-> <<>>, typeNode |-> typeNode]

TypedComponent(form, name, params, annotation) ==
  [form |-> form, name |-> name, params |-> params, annotation |-> annotation]

\* a source file with type declarations and one component declaration
TypedFile(types, component) == [types |-> types, component |-> component]

\* ASTAnalyzer.extractPropsFromParameter
extractPropsFromParameter(sourceFile, param, stack) ==
  IF param.binding = "object" /\ param.elements # <<>>
  THEN Resolved(param.elements)
  ELSE IF param.typeNode.kind = "literal" /\ param.typeNode.members # <<>>
  THEN Resolved(param.typeNode.members)
  ELSE IF param.typeNode.kind = "reference"
  THEN resolveTypeToProps(sourceFile, param.typeNode.name, stack)
  ELSE Resolved(<<>>)

\* params.length > 0 ? this.extractPropsFromParameter(params[0]) : []
FirstParameterProps(sourceFile, params, stack) ==
  IF params = <<>> THEN Resolved(<<>>)
  ELSE extractPropsFromParameter(sourceFile, params[1], stack)

\* ASTAnalyzer.extractPropsFromTypeDefinition
extractPropsFromTypeDefinition(sourceFile, componentName) ==
  (IF /\ getTypeAlias(sourceFile, <<componentName \o "Props">>).found
      /\ getTypeAlias(sourceFile, <<componentName \o "Props">>).decl.typeNode.kind
           = "literal"
   THEN getTypeAlias(sourceFile, <<componentName \o "Props">>).decl.typeNode.members
   ELSE <<>>)
  \o (IF getInterface(sourceFile, <<componentName \o "Props">>).found
      THEN getInterface(sourceFile, <<componentName \o "Props">>).decl.properties
      ELSE <<>>)

\* props, or what the type named after the component declares when props
\* is empty
OrTypeDefinition(sourceFile, componentName, found) ==
  IF found.overflow THEN Overflow
  ELSE IF found.props = <<>>
  THEN Resolved(extractPropsFromTypeDefinition(sourceFile, componentName))
  ELSE found

\* ASTAnalyzer.extractComponentFromVariable, the variable's type annotation:
\* the first type argument of a type reference
AnnotationProps(sourceFile, typeNode, stack) ==
  IF typeNode.kind = "reference" /\ typeNode.types # <<>>
  THEN IF typeNode.types[1].kind = "literal"
       THEN Resolved(typeNode.types[1].members)
       ELSE IF typeNode.types[1].kind = "reference"
       THEN resolveTypeToProps(sourceFile, getText(typeNode.types[1]), stack)
       ELSE Resolved(<<>>)
  ELSE Resolved(<<>>)

\* the props of ASTAnalyzer.extractComponentFromFunction's ComponentInfo
PropsOfFunction(sourceFile, func, stack) ==
  OrTypeDefinition(sourceFile, func.name,
                   FirstParameterProps(sourceFile, func.params, stack))

\* the props of ASTAnalyzer.extractComponentFromVariable's ComponentInfo, the
\* initializer being an arrow function or a function expression
PropsOfVariable(sourceFile, varDecl, stack) ==
  OrTypeDefinition(sourceFile, varDecl.name,
    IF FirstParameterProps(sourceFile, varDecl.params, stack).overflow
    THEN Overflow
    ELSE IF FirstParameterProps(sourceFile, varDecl.params, stack).props = <<>>
    THEN AnnotationProps(sourceFile, varDecl.annotation, stack)
    ELSE FirstParameterProps(sourceFile, varDecl.params, stack))

\* the props of ASTAnalyzer.extractComponentFromVariable's ComponentInfo, the
\* initializer being a recognized wrapper call around a function
PropsOfWrapped(sourceFile, varDecl, stack) ==
  OrTypeDefinition(sourceFile, varDecl.name,
                   FirstParameterProps(sourceFile, varDecl.params, stack))

\* the props analyzeFile lists for the file's component
PropsOf(sourceFile, stack) ==
  CASE sourceFile.component.form = "function" ->
         PropsOfFunction(sourceFile, sourceFile.component, stack)
    [] sourceFile.component.form = "variable" ->
         PropsOfVariable(sourceFile, sourceFile.component, stack)
    [] OTHER -> PropsOfWrapped(sourceFile, sourceFile.component, stack)

\* function Card() {...} in a file without type declarations
PlainFile == TypedFile(<<>>, TypedComponent("function", "Card", <<>>, NoTypeNode))

\* nothing asked of analyzeFile about the file yet
NotListed(file) == [file |-> file, asked |-> FALSE, threw |-> FALSE, props |-> <<>>]

\* ------------------------------------------------------------ the state

VARIABLES
  disk,          \* file path -> the syntax tree its current content parses to
  hostFault,     \* the host-level fault in force: [kind, file]
  cache,         \* ASTAnalyzer.project: file path -> [loaded, tree]
  pc,            \* where buildPropChain stands: idle, loop, post, done, threw
  calls,         \* buildPropChain calls started since the files last changed
  edits,         \* files rewritten so far
  prior,         \* history: the trace the call before this one returned, when
                 \* it had the same arguments and no file changed since
  reply,         \* what the last direct call of an ASTAnalyzer method returned
  shown,         \* what the Trace Prop Upstream command did with the call's
                 \* outcome: nothing yet, a navigation, a message, an error
  request,       \* the arguments of the current call: filePath, componentName, propName
  chain,         \* buildPropChain's chain, current -> source while traversing
  depth,         \* buildPropChain's depth
  isComplete,    \* buildPropChain's isComplete
  ambiguous,     \* buildPropChain's ambiguous
  trace,         \* the PropTrace returned by the call, once pc = "done"
  exhausted,     \* history: the loop was left through its break
  hops,          \* history: per pushed parent, the usage that resolved it
  caught,        \* history: a catch block absorbed an error during this call
  searches,      \* history: findParentNode calls made by this call
  lastSearch,    \* history: the last findParentNode call: its node, the usages
                 \* the workspace search returned, those analyzed, the outcome
  other,         \* a second buildPropChain call running on the same
                 \* GraphBuilder: its position and its local variables
  listing        \* a file with type declarations and one component, and the
                 \* prop list analyzeFile gave for it once asked

vars == << disk, hostFault, cache, pc, calls, edits, prior, reply, shown, request,
           chain, depth, isComplete, ambiguous, trace, exhausted, hops, caught,
           searches,
                  lastSearch, other, listing >>

Files == {"App.tsx", "Child.tsx", "Parent.tsx"}

\* the order in which vscode.workspace.findFiles lists the files
FileOrder == <<"App.tsx", "Child.tsx", "Parent.tsx">>

Components == {"App", "Child", "Parent"}

EmptyTree == [decls |-> <<>>, tags |-> <<>>]

NotLoaded == [loaded |-> FALSE, tree |-> EmptyTree]

Loaded(tree) == [loaded |-> TRUE, tree |-> tree]

NoFault == [kind |-> "none", file |-> ""]

\* the analyzer's file system cannot read file f (ts-morph throws)
ReadFails(f) == hostFault = [kind |-> "read", file |-> f]

\* vscode.workspace.openTextDocument fails on file f
OpenFails(f) == hostFault = [kind |-> "open", file |-> f]

\* ------------------------------------------------------------ ASTAnalyzer

\* getSourceFile without the addSourceFileAtPath: a file the project does
\* not hold yields no tree
getSourceFileCachedOnly(c, filePath) ==
  IF c[filePath].loaded
  THEN [threw |-> FALSE, cache |-> c, sourceFile |-> c[filePath].tree]
  ELSE [threw |-> TRUE, cache |-> c, sourceFile |-> EmptyTree]

\* ASTAnalyzer.getSourceFile: the cached tree when there is one, whatever the
\* disk holds now; otherwise the file is added from disk
getSourceFile(c, filePath) ==
  IF c[filePath].loaded
  THEN [threw |-> FALSE, cache |-> c, sourceFile |-> c[filePath].tree]
  ELSE IF ReadFails(filePath)
  THEN [threw |-> TRUE, cache |-> c, sourceFile |-> EmptyTree]
  ELSE [threw |-> FALSE, cache |-> [c EXCEPT ![filePath] = Loaded(disk[filePath])],
        sourceFile |-> disk[filePath]]

\* ASTAnalyzer.analyzeFile on the file a re-export names, which in the
\* modelled workspaces re-exports nothing itself: the tree is refreshed or
\* added from disk and its function and variable components returned
analyzeOriginal(c, resolvedPath) ==
  IF ReadFails(resolvedPath)
  THEN [threw |-> TRUE, cache |-> [c EXCEPT ![resolvedPath] = NotLoaded],
        components |-> <<>>]
  ELSE [threw |-> FALSE,
        cache |-> [c EXCEPT ![resolvedPath] = Loaded(disk[resolvedPath])],
        components |-> FunctionComponents(disk[resolvedPath])
                       \o VariableComponents(disk[resolvedPath])]

\* ASTAnalyzer.findReExportedComponents, the body of its try block once
\* getSourceFile has returned: analyzeFile on the original module, then the
\* entry when that module lists the original name
ReExportEntry(exportDecl, original) ==
  [cache |-> original.cache,
   components |->
     IF ~original.threw
        /\ \E i \in 1..Len(original.components) :
             original.components[i].name = exportDecl.original
     THEN <<Info(exportDecl)>>
     ELSE <<>>]

\* ASTAnalyzer.findReExportedComponents, one export declaration
ReExportOf(exportDecl, source) ==
  IF source.threw THEN [cache |-> source.cache, components |-> <<>>]
  ELSE ReExportEntry(exportDecl, analyzeOriginal(source.cache, exportDecl.target))

\* ASTAnalyzer.findReExportedComponents: the loop over the export
\* declarations, the cache passed from one to the next
RECURSIVE findReExportedComponents(_, _), ReExportsAfter(_, _)
findReExportedComponents(exportDeclarations, c) ==
  IF exportDeclarations = <<>> THEN [cache |-> c, components |-> <<>>]
  ELSE IF \/ Head(exportDeclarations).target = ""
          \/ ~StartsUppercase(Head(exportDeclarations).name)
  THEN findReExportedComponents(Tail(exportDeclarations), c)
  ELSE ReExportsAfter(Tail(exportDeclarations),
                      ReExportOf(Head(exportDeclarations),
                                 getSourceFile(c, Head(exportDeclarations).target)))

ReExportsAfter(remaining, first) ==
  [findReExportedComponents(remaining, first.cache)
     EXCEPT !.components = first.components \o @]

\* ASTAnalyzer.analyzeFile from "const components" on: the function
\* components, then the variable ones, then the re-exported ones
ComponentsOf(sourceFile, reExports) ==
  [threw |-> FALSE, cache |-> reExports.cache,
   components |-> FunctionComponents(sourceFile) \o VariableComponents(sourceFile)
                  \o reExports.components]

\* ASTAnalyzer.analyzeFile from "const components" on, sourceFile being the
\* tree that c holds for the path
extractComponents(sourceFile, c) ==
  ComponentsOf(sourceFile,
               findReExportedComponents(ExportDeclarations(sourceFile), c))

\* ASTAnalyzer.analyzeFile without document text: a cached tree is refreshed
\* from disk, a missing one added from disk; the components are those of the
\* disk content.  An unreadable file leaves no tree and the call throws.
analyzeFile(c, filePath) ==
  IF ReadFails(filePath)
  THEN [threw |-> TRUE, cache |-> [c EXCEPT ![filePath] = NotLoaded],
        components |-> <<>>]
  ELSE extractComponents(disk[filePath],
                         [c EXCEPT ![filePath] = Loaded(disk[filePath])])

\* A document text is the sequence of its lines; a line holds nothing, a
\* top-level declaration or a JSX element:
\* [kind |-> "blank" | "decl" | "tag", decl, tag].
BlankLine == [kind |-> "blank", decl |-> FunctionDecl("App", 0), tag |-> Tag("none", "", 0, <<>>)]

DeclOn(decl) == [kind |-> "decl", decl |-> decl, tag |-> Tag("none", "", 0, <<>>)]

TagOn(tag) == [kind |-> "tag", decl |-> FunctionDecl("App", 0), tag |-> tag]

\* the element of line i, its attributes on the same line
TagAt(tag, i) ==
  [tag EXCEPT !.line = i,
              !.attrs = [k \in 1..Len(tag.attrs) |-> [tag.attrs[k] EXCEPT !.line = i]]]

\* the parser (project.createSourceFile, sourceFile.replaceWithText): the
\* declarations and the elements of the text, each at the line it stands on
Parse(text) ==
  LET numbered == [i \in 1..Len(text) |-> [i |-> i, item |-> text[i]]]
      IsDecl(x) == x.item.kind = "decl"
      IsTag(x) == x.item.kind = "tag"
      declLines == SelectSeq(numbered, IsDecl)
      tagLines == SelectSeq(numbered, IsTag)
  IN  [decls |-> [k \in 1..Len(declLines) |->
                    [declLines[k].item.decl EXCEPT !.line = declLines[k].i]],
       tags |-> [k \in 1..Len(tagLines) |-> TagAt(tagLines[k].item.tag, tagLines[k].i)]]

\* ASTAnalyzer.analyzeFile with document text: if (documentText) is false of
\* the empty string, which then takes the branch of the absent text
analyzeFileWithText(c, filePath, documentText) ==
  IF documentText # <<>>
  THEN extractComponents(Parse(documentText),
                         [c EXCEPT ![filePath] = Loaded(Parse(documentText))])
  ELSE analyzeFile(c, filePath)

\* ------------------------------------------------------------ GraphBuilder

NullNode ==
  [componentName |-> "", filePath |-> "", propName |-> <<>>, lineCode |-> 0,
   type |-> "SOURCE"]

\* the vscode.Location of every text match of <componentName in one file: the
\* start of each element with that tag name, in document order, lines 0-based
LocationsIn(filePath, componentName) ==
  LET Named(t) == t.name = componentName
      named == SelectSeq(disk[filePath].tags, Named)
  IN  [i \in 1..Len(named) |-> [file |-> filePath, line |-> named[i].line - 1]]

\* GraphBuilder.findComponentUsagesInWorkspace, the loop over the files
RECURSIVE UsagesInFiles(_, _)
UsagesInFiles(files, componentName) ==
  IF files = <<>> THEN <<>>
  ELSE (IF OpenFails(Head(files)) THEN <<>>
        ELSE LocationsIn(Head(files), componentName))
       \o UsagesInFiles(Tail(files), componentName)

\* GraphBuilder.findComponentUsagesInWorkspace
findComponentUsagesInWorkspace(componentName) ==
  IF hostFault.kind = "findFiles" THEN <<>>
  ELSE UsagesInFiles(FileOrder, componentName)

\* GraphBuilder.findComponentAtLine, after its analyzeFile call
ComponentAmong(analyzed, line) ==
  [threw |-> analyzed.threw, cache |-> analyzed.cache,
   closest |-> ClosestComponent(analyzed.components, line,
                                [found |-> FALSE, name |-> "", line |-> 0])]

\* GraphBuilder.findComponentAtLine
findComponentAtLine(c, filePath, line) ==
  ComponentAmong(analyzeFile(c, filePath), line)

NoParent(c, wasCaught) ==
  [threw |-> FALSE, found |-> FALSE, node |-> NullNode, cache |-> c,
   caught |-> wasCaught, usage |-> NoUsage, examined |-> <<>>]

\* an error leaving a try body
Thrown(c) ==
  [threw |-> TRUE, found |-> FALSE, node |-> NullNode, cache |-> c,
   caught |-> FALSE, usage |-> NoUsage, examined |-> <<>>]

\* GraphBuilder.analyzeLocationForPropUsage, from "Find which component
\* contains this JSX usage" on, parentComponent being findComponentAtLine's
\* outcome
ParentNodeOf(refFilePath, propUsage, parentComponent) ==
  IF parentComponent.threw THEN Thrown(parentComponent.cache)
  ELSE IF ~parentComponent.closest.found THEN NoParent(parentComponent.cache, FALSE)
  ELSE [threw |-> FALSE, found |-> TRUE,
        node |-> [componentName |-> parentComponent.closest.name,
                  filePath |-> refFilePath,
                  propName |-> extractPropName(propUsage.value),
                  lineCode |-> propUsage.line,
                  type |-> determineNodeType(propUsage.value)],
        cache |-> parentComponent.cache,
        caught |-> FALSE,
        usage |-> propUsage,
        examined |-> <<>>]

\* GraphBuilder.analyzeLocationForPropUsage, from "if (!propUsage)" on
AttributeUsage(refFilePath, propUsage, c) ==
  IF ~propUsage.found THEN NoParent(c, FALSE)
  ELSE ParentNodeOf(refFilePath, propUsage,
                    findComponentAtLine(c, refFilePath, propUsage.line))

\* GraphBuilder.analyzeLocationForPropUsage, from "if (!sourceFile)" on,
\* source being getSourceFile's outcome
ResolveUsage(location, node, source) ==
  IF source.threw THEN Thrown(source.cache)
  ELSE AttributeUsage(location.file,
                      findPropUsageAtLocation(source.sourceFile, node.componentName,
                                              node.propName, location.line + 1),
                      source.cache)

\* GraphBuilder.analyzeLocationForPropUsage, the body of its try block
analyzeLocationTry(location, node, c) ==
  ResolveUsage(location, node, getSourceFile(c, location.file))

\* CatchNull with the error rethrown instead of absorbed
CatchNullRethrows(tried) == tried

\* a catch block that logs and returns null
CatchNull(tried) ==
  IF tried.threw
  THEN [NoParent(tried.cache, TRUE) EXCEPT !.examined = tried.examined]
  ELSE tried

\* GraphBuilder.analyzeLocationForPropUsage
analyzeLocationForPropUsage(location, node, c) ==
  CatchNull(analyzeLocationTry(location, node, c))

\* GraphBuilder.findParentNode, the loop over the usages: ScanUsages skips a
\* usage in the node's own file and analyzes any other; NextUsage returns
\* the parent found or goes on with the remaining usages (an error that
\* analyzeLocationForPropUsage let out would leave the loop)
\* history: location is the usage announced by "Analyzing usage in", put
\* before those that the rest of the loop announces
Analyzing(location, outcome) ==
  [outcome EXCEPT !.examined = <<location>> \o @]

RECURSIVE ScanUsages(_, _, _, _), NextUsage(_, _, _, _)

\* NextUsage without the return: the loop goes on after a parent was found
\* and the last parent found is returned
NextUsageKeepsLooking(remaining, node, wasCaught, parentNode) ==
  IF parentNode.threw THEN parentNode
  ELSE IF parentNode.found /\ ~ScanUsages(remaining, node, parentNode.cache, FALSE).found
  THEN [parentNode EXCEPT !.caught = wasCaught \/ parentNode.caught]
  ELSE ScanUsages(remaining, node, parentNode.cache, wasCaught \/ parentNode.caught)

\* ScanUsages without the same-file test: every usage is analyzed
ScanUsagesNoSkip(usages, node, c, wasCaught) ==
  IF usages = <<>> THEN NoParent(c, wasCaught)
  ELSE Analyzing(Head(usages),
                 NextUsage(Tail(usages), node, wasCaught,
                           analyzeLocationForPropUsage(Head(usages), node, c)))

ScanUsages(usages, node, c, wasCaught) ==
  IF usages = <<>> THEN NoParent(c, wasCaught)
  ELSE IF Head(usages).file = node.filePath
  THEN ScanUsages(Tail(usages), node, c, wasCaught)
  ELSE Analyzing(Head(usages),
                 NextUsage(Tail(usages), node, wasCaught,
                           analyzeLocationForPropUsage(Head(usages), node, c)))

NextUsage(remaining, node, wasCaught, parentNode) ==
  IF parentNode.threw THEN parentNode
  ELSE IF parentNode.found
  THEN [parentNode EXCEPT !.caught = wasCaught \/ parentNode.caught]
  ELSE ScanUsages(remaining, node, parentNode.cache, wasCaught \/ parentNode.caught)

\* GraphBuilder.findParentNode, the body of its try block
findParentNodeTry(usages, node, c) ==
  IF Len(usages) = 0 THEN NoParent(c, FALSE)
  ELSE ScanUsages(usages, node, c, FALSE)

\* GraphBuilder.findParentNode
findParentNode(node, c) ==
  CatchNull(findParentNodeTry(findComponentUsagesInWorkspace(node.componentName),
                              node, c))

\* LoopGuard off by one: while (depth <= this.maxDepth)
LoopGuardInclusive(d) == d <= MaxDepth

\* buildPropChain: while (depth < this.maxDepth)
LoopGuard(d) == d < MaxDepth

\* completeness with the test strict: if (depth > this.maxDepth)
completenessStrict(d, complete) == IF d > MaxDepth THEN FALSE ELSE complete

\* buildPropChain: if (depth >= this.maxDepth) isComplete = false
completeness(d, complete) == IF d >= MaxDepth THEN FALSE ELSE complete

\* Array.prototype.reverse
RECURSIVE Reverse(_)
Reverse(s) == IF s = <<>> THEN <<>> ELSE Reverse(Tail(s)) \o <<Head(s)>>

\* markTypes without its loop over the middle items
markTypesEndsOnly(reversedChain) ==
  [i \in 1..Len(reversedChain) |->
     IF i = 1 THEN [reversedChain[i] EXCEPT !.type = "SOURCE"]
     ELSE IF i = Len(reversedChain)
          THEN [reversedChain[i] EXCEPT !.type = "DEFINITION"]
          ELSE reversedChain[i]]

\* markTypes with the last item marked whatever the length
markTypesLastAlways(reversedChain) ==
  [i \in 1..Len(reversedChain) |->
     IF i = Len(reversedChain)
     THEN [reversedChain[i] EXCEPT !.type = "DEFINITION"]
     ELSE IF i = 1 THEN [reversedChain[i] EXCEPT !.type = "SOURCE"]
          ELSE [reversedChain[i] EXCEPT !.type = "USAGE"]]

\* buildPropChain: "Mark the first item as SOURCE and last as DEFINITION",
\* "Middle items are USAGE"
markTypes(reversedChain) ==
  [i \in 1..Len(reversedChain) |->
     IF i = 1 THEN [reversedChain[i] EXCEPT !.type = "SOURCE"]
     ELSE IF i = Len(reversedChain)
          THEN [reversedChain[i] EXCEPT !.type = "DEFINITION"]
          ELSE [reversedChain[i] EXCEPT !.type = "USAGE"]]

EmptyTrace ==
  [propName |-> <<>>, chain |-> <<>>, isComplete |-> TRUE, ambiguous |-> FALSE]

NoPrior == [known |-> FALSE, trace |-> EmptyTrace]

NothingShown == [kind |-> "none", filePath |-> "", line |-> 0]

NoReply ==
  [op |-> "none", filePath |-> "", supplied |-> FALSE, text |-> <<>>,
   threw |-> FALSE, components |-> <<>>, componentName |-> "", propName |-> <<>>,
   nearLine |-> 0, tree |-> [decls |-> <<>>, tags |-> <<>>], usage |-> NoUsage]

\* ------------------------------------------------------- the workspaces
\* Each file declares the component of its name; the function keyword is on
\* line 1 and the file's JSX element on line 3.

Label == <<"l","a","b","e","l">>
Title == <<"t","i","t","l","e">>
QuotedHi == <<"\"","h","i","\"">>
PropsTitle == PropsDot \o Title
\* the text of the string literal "props.title", quotes included
QuotedPropsTitle == <<"\"">> \o PropsTitle \o <<"\"">>
DollarTitle == <<"$">> \o Title
PropsDollarTitle == PropsDot \o DollarTitle
\* the text of the object literal {...spread}
ObjectSpread == <<"{",".",".",".","s","p","r","e","a","d","}">>

\* the lines used: a declaration before the element, a second declaration,
\* the element, a second element, a declaration after them
Lines == [decl |-> 1, secondDecl |-> 2, tag |-> 3, secondTag |-> 4, lateDecl |-> 5]
DeclLine == Lines.decl
TagLine == Lines.tag
SecondDeclLine == Lines.secondDecl
SecondTagLine == Lines.secondTag
LateDeclLine == Lines.lateDecl

\* the attribute lists <Child ... /> is written with in Parent.tsx
ChildAttrs ==
  { <<Attr(Label, TagLine, "string", QuotedHi)>>,          \* label="hi"
    <<Attr(Label, TagLine, "string", QuotedPropsTitle)>>,  \* label="props.title"
    <<Attr(Label, TagLine, "expr", Title)>>,               \* label={title}
    <<Attr(Label, TagLine, "expr", PropsTitle)>>,          \* label={props.title}
    <<Attr(Label, TagLine, "expr", PropsDollarTitle)>>,    \* label={props.$title}
    <<Attr(Label, TagLine, "expr", ObjectSpread)>>,        \* label={{...spread}}
    <<Attr(Label, TagLine, "none", <<>>)>>,                \* label
    <<Attr(Label, TagLine, "expr", NullValue)>>,           \* label={}
    <<Spread(TagLine)>>,                                   \* {...rest}
    <<Spread(TagLine), Attr(Label, TagLine, "expr", Title)>>, \* {...rest} label={title}
    <<>> }

ParentTrees ==
  { [decls |-> <<FunctionDecl("Parent", DeclLine)>>, tags |-> <<>>] }
  \cup { [decls |-> <<FunctionDecl("Parent", DeclLine)>>,
          tags |-> <<Tag("selfClosing", "Child", TagLine, attrs)>>] : attrs \in ChildAttrs }
  \cup { [decls |-> <<FunctionDecl("Parent", LateDeclLine)>>,
          tags |-> <<Tag("selfClosing", "Child", TagLine,
                         <<Attr(Label, TagLine, "expr", Title)>>)>>] }
  \* const Panel = () => ... on the line after function Parent, a helper
  \* after the element: <Child label={title} /> stands below both components
  \cup { [decls |-> <<FunctionDecl("Parent", DeclLine),
                      VariableDecl("Panel", SecondDeclLine, "arrow"),
                      VariableDecl("helper", LateDeclLine, "arrow")>>,
          tags |-> <<Tag("selfClosing", "Child", TagLine,
                         <<Attr(Label, TagLine, "expr", Title)>>)>>] }

ChildTrees ==
  { [decls |-> <<FunctionDecl("Child", DeclLine)>>, tags |-> tags] :
      tags \in { <<>>,
                 <<Tag("selfClosing", "Parent", TagLine,
                       <<Attr(Title, TagLine, "expr", Label)>>)>>,
                 <<Tag("opening", "Parent", TagLine, <<Spread(TagLine)>>)>>,
                 <<Tag("selfClosing", "Child", TagLine,
                       <<Attr(Label, TagLine, "string", QuotedHi)>>)>> } }

AppTrees ==
  { [decls |-> <<FunctionDecl("App", DeclLine)>>, tags |-> tags] :
      tags \in { <<>>,
                 <<Tag("selfClosing", "Parent", TagLine,
                       <<Attr(Title, TagLine, "string", QuotedHi)>>)>>,
                 <<Tag("selfClosing", "Parent", TagLine,
                       <<Attr(Title, TagLine, "expr", Label)>>)>>,
                 <<Tag("opening", "Parent", TagLine, <<Spread(TagLine)>>)>>,
                 <<Tag("selfClosing", "Child", TagLine,
                       <<Attr(Label, TagLine, "expr", Title)>>)>>,
                 \* <Child /> and, on the next line, <Child label={title} />
                 <<Tag("selfClosing", "Child", TagLine, <<>>),
                   Tag("selfClosing", "Child", SecondTagLine,
                       <<Attr(Label, SecondTagLine, "expr", Title)>>)>> } }
  \* <Child label={title} /> above the only declaration
  \cup { [decls |-> <<FunctionDecl("App", LateDeclLine)>>,
          tags |-> <<Tag("selfClosing", "Child", TagLine,
                         <<Attr(Label, TagLine, "expr", Title)>>)>>] }

\* The ladder: prop names L1 = label, L2 = title, L3 = p03, ...; Parent.tsx
\* passes Child the odd ones and Child.tsx passes Parent the even ones, each
\* with the next name as its value, up to L(MaxDepth - 1).  The hop that
\* looks for L(MaxDepth) finds no attribute.
DigitText == <<"0","1","2","3","4","5","6","7","8","9">>

LadderName(k) ==
  IF k = 1 THEN Label
  ELSE IF k = 2 THEN Title
  ELSE <<"p", DigitText[(k \div 10) + 1], DigitText[(k % 10) + 1]>>

\* the rungs k, k + 2, ... below `top`, as attributes Lk={L(k+1)}
RECURSIVE LadderAttrs(_, _)
LadderAttrs(k, top) ==
  IF k >= top THEN <<>>
  ELSE <<Attr(LadderName(k), TagLine, "expr", LadderName(k + 1))>>
       \o LadderAttrs(k + 2, top)

LadderDisk ==
  [f \in Files |->
    CASE f = "Parent.tsx" ->
           [decls |-> <<FunctionDecl("Parent", DeclLine)>>,
            tags |-> <<Tag("selfClosing", "Child", TagLine, LadderAttrs(1, MaxDepth))>>]
      [] f = "Child.tsx" ->
           [decls |-> <<FunctionDecl("Child", DeclLine)>>,
            tags |-> <<Tag("selfClosing", "Parent", TagLine, LadderAttrs(2, MaxDepth))>>]
      [] OTHER ->
           [decls |-> <<FunctionDecl("App", DeclLine)>>, tags |-> <<>>]]

Disks ==
  { [f \in Files |-> CASE f = "App.tsx" -> a [] f = "Child.tsx" -> c [] OTHER -> p] :
      a \in AppTrees, c \in ChildTrees, p \in ParentTrees }
  \cup {LadderDisk}

Faults ==
  { NoFault,
    [kind |-> "findFiles", file |-> ""],
    [kind |-> "read", file |-> "Child.tsx"],
    [kind |-> "read", file |-> "Parent.tsx"],
    [kind |-> "open", file |-> "Parent.tsx"] }

\* the calls made: a component traced from its own file, or from App.tsx
Requests ==
  { r \in [filePath : Files, componentName : Components, propName : {Label, Title}] :
      \/ r.filePath = "App.tsx"
      \/ r.filePath = r.componentName \o ".tsx" }

\* ------------------------------------------------------------- behaviour

\* the second call before it is made
NotCalled ==
  [pc |-> "idle",
   request |-> [filePath |-> "App.tsx", componentName |-> "App", propName |-> Label],
   chain |-> <<>>, depth |-> 0, ambiguous |-> FALSE, trace |-> EmptyTrace,
   overlapped |-> FALSE]

\* history: no findParentNode call made yet
NoSearch ==
  [node |-> NullNode, usages |-> <<>>, examined |-> <<>>, found |-> FALSE]

\* history: findParentNode(node) searched the workspace, got usages, and
\* returned parentNode
SearchMade(node, usages, parentNode) ==
  [node |-> node, usages |-> usages, examined |-> parentNode.examined,
   found |-> parentNode.found]

\* a GraphBuilder and its analyzer as constructed: nothing parsed, nothing
\* called
Constructed ==
  /\ cache = [f \in Files |-> NotLoaded]
  /\ pc = "idle"
  /\ calls = 0
  /\ edits = 0
  /\ prior = NoPrior
  /\ reply = NoReply
  /\ shown = NothingShown
  /\ request = [filePath |-> "App.tsx", componentName |-> "App", propName |-> Label]
  /\ chain = <<>>
  /\ depth = 0
  /\ isComplete = TRUE
  /\ ambiguous = FALSE
  /\ trace = EmptyTrace
  /\ exhausted = FALSE
  /\ hops = <<>>
  /\ caught = FALSE
  /\ searches = 0
  /\ lastSearch = NoSearch
  /\ other = NotCalled

Init ==
  /\ disk \in Disks
  /\ hostFault \in Faults
  /\ Constructed
  /\ listing = NotListed(PlainFile)

\* LineOf falling back on the first component listed
LineOfOrFirst(components, componentName) ==
  IF components = <<>> THEN 0
  ELSE IF \E i \in 1..Len(components) : components[i].name = componentName
  THEN components[CHOOSE i \in 1..Len(components) :
                    /\ components[i].name = componentName
                    /\ \A j \in 1..(i - 1) : components[j].name # componentName].line
  ELSE components[1].line

\* components.find((c) => c.name === componentName)'s line, 0 without one
RECURSIVE LineOf(_, _)
LineOf(components, componentName) ==
  IF components = <<>> THEN 0
  ELSE IF Head(components).name = componentName THEN Head(components).line
  ELSE LineOf(Tail(components), componentName)

\* buildPropChain up to its loop, analyzed being analyzeFile's outcome
Start(r, analyzed) ==
  /\ cache' = analyzed.cache
  /\ IF analyzed.threw
     THEN /\ pc' = "threw"
          /\ chain' = <<>>
     ELSE /\ pc' = "loop"
          /\ chain' = << [componentName |-> r.componentName,
                          filePath |-> r.filePath,
                          propName |-> r.propName,
                          lineCode |-> LineOf(analyzed.components, r.componentName),
                          type |-> "DEFINITION"] >>

\* buildPropChain up to its loop: the DEFINITION node of the request.  The
\* analyzeFile call is outside every try block: its error leaves the call.
Call(r) ==
  /\ pc \in {"idle", "done", "threw"}
  /\ calls < MaxCalls
  /\ calls' = calls + 1
  /\ prior' = IF pc = "done" /\ request = r
              THEN [known |-> TRUE, trace |-> trace]
              ELSE NoPrior
  /\ request' = r
  /\ Start(r, analyzeFile(cache, r.filePath))
  /\ depth' = 0
  /\ isComplete' = TRUE
  /\ ambiguous' = FALSE
  /\ trace' = EmptyTrace
  /\ exhausted' = FALSE
  /\ hops' = <<>>
  /\ caught' = FALSE
  /\ searches' = 0
  /\ lastSearch' = NoSearch
  /\ shown' = NothingShown
  /\ UNCHANGED << disk, hostFault, edits, reply, other, listing >>

\* buildPropChain's loop body after findParentNode has returned parentNode
HopOutcome(parentNode) ==
  /\ cache' = parentNode.cache
  /\ caught' = (caught \/ parentNode.caught)
  /\ IF parentNode.threw
     THEN /\ pc' = "threw"
          /\ UNCHANGED << chain, ambiguous, exhausted, hops >>
     ELSE IF ~parentNode.found
     THEN /\ chain' = [chain EXCEPT ![Len(chain)].type = "SOURCE"]
          /\ exhausted' = TRUE
          /\ pc' = "post"
          /\ UNCHANGED << ambiguous, hops >>
     ELSE /\ ambiguous' = (ambiguous \/ parentNode.node.propName = SpreadSentinel)
          /\ chain' = Append(chain, parentNode.node)
          /\ hops' = Append(hops, parentNode.usage)
          /\ pc' = "loop"
          /\ UNCHANGED exhausted

\* One iteration of buildPropChain's loop: one findParentNode call on the
\* current node, which is the last node of chain.
Hop ==
  /\ pc = "loop"
  /\ LoopGuard(depth)
  /\ depth' = depth + 1
  /\ searches' = searches + 1
  /\ HopOutcome(findParentNode(chain[Len(chain)], cache))
  /\ lastSearch' = SearchMade(chain[Len(chain)],
                              findComponentUsagesInWorkspace(chain[Len(chain)].componentName),
                              findParentNode(chain[Len(chain)], cache))
  /\ UNCHANGED << disk, hostFault, calls, edits, prior, reply, shown, request,
                  isComplete, trace, other, listing >>

\* buildPropChain after its loop: the depth test, the reversal, the final
\* types, the returned PropTrace.
Finish ==
  /\ \/ pc = "post"
     \/ pc = "loop" /\ ~LoopGuard(depth)
  /\ isComplete' = completeness(depth, isComplete)
  /\ trace' = [propName |-> request.propName,
               chain |-> markTypes(Reverse(chain)),
               isComplete |-> isComplete',
               ambiguous |-> ambiguous]
  /\ pc' = "done"
  /\ UNCHANGED << disk, hostFault, cache, calls, edits, prior, reply, shown,
                  request, chain, depth, ambiguous, exhausted, hops, caught,
                  searches,
                  lastSearch, other, listing >>

\* tracePropUpstream after buildPropChain has thrown: the catch block shows
\* the error
ErrorShown == [kind |-> "error", filePath |-> "", line |-> 0]

\* tracePropUpstream after buildPropChain has returned `returned`: the message
\* for a chain of fewer than two nodes, else the document of chain[1] (the
\* second node, counted from 0) is opened and the cursor put on the line
\* before lineCode, counted from 0; a document that cannot be opened and a
\* line before the first end in the catch block
upstreamTarget(returned) ==
  IF Len(returned.chain) < 2
  THEN [kind |-> "message", filePath |-> "", line |-> 0]
  ELSE IF OpenFails(returned.chain[2].filePath) \/ returned.chain[2].lineCode - 1 < 0
  THEN ErrorShown
  ELSE [kind |-> "navigate", filePath |-> returned.chain[2].filePath,
        line |-> returned.chain[2].lineCode - 1]

\* The Trace Prop Upstream command, from the return of its buildPropChain
\* call on.
NavigateUpstream ==
  /\ pc \in {"done", "threw"}
  /\ shown = NothingShown
  /\ shown' = IF pc = "threw" THEN ErrorShown ELSE upstreamTarget(trace)
  /\ UNCHANGED << disk, hostFault, cache, pc, calls, edits, prior, reply, request,
                  chain, depth, isComplete, ambiguous, trace, exhausted, hops,
                  caught, searches,
                  lastSearch, other, listing >>

Next ==
  \/ \E r \in Requests : Call(r)
  \/ Hop
  \/ Finish
  \/ NavigateUpstream

Spec == Init /\ [][Next]_vars

\* A Hop step as the loop counter shows it.  Hop is enabled exactly when its
\* guard holds (findParentNode always returns), and only Hop changes depth
\* while pc = "loop".
HopTaken ==
  /\ pc = "loop"
  /\ LoopGuard(depth)
  /\ depth' = depth + 1

\* A Finish step as pc shows it: Finish is enabled exactly when its guard
\* holds, and only Finish sets pc to "done".
FinishTaken ==
  /\ \/ pc = "post"
     \/ pc = "loop" /\ ~LoopGuard(depth)
  /\ pc' = "done"

\* The host resumes an awaited search and runs the function to its return:
\* weak fairness of Hop and of Finish.
FairSpec == Spec /\ WF_depth(HopTaken) /\ WF_pc(FinishTaken)

\* ------------------------------------------------- files that change
\* The same engine in a workspace whose files are rewritten between calls.

EditParentTrees ==
  { [decls |-> <<FunctionDecl("Parent", DeclLine)>>,
     tags |-> <<Tag("selfClosing", "Child", TagLine, attrs)>>] :
      attrs \in { <<Attr(Label, TagLine, "string", QuotedHi)>>,
                  <<Attr(Label, TagLine, "expr", Title)>>,
                  <<Spread(TagLine)>> } }

EditAppTrees ==
  { [decls |-> <<FunctionDecl("App", DeclLine)>>, tags |-> tags] :
      tags \in { <<>>,
                 <<Tag("selfClosing", "Parent", TagLine,
                       <<Attr(Title, TagLine, "string", QuotedHi)>>)>>,
                 <<Tag("selfClosing", "Parent", TagLine,
                       <<Attr(Title, TagLine, "expr", Label)>>)>> } }

\* the contents a file is written with
EditTrees(f) ==
  CASE f = "App.tsx" -> EditAppTrees
    [] f = "Parent.tsx" -> EditParentTrees
    [] OTHER -> { [decls |-> <<FunctionDecl("Child", DeclLine)>>, tags |-> <<>>] }

EditRequests ==
  { [filePath |-> "Child.tsx", componentName |-> "Child", propName |-> Label],
    [filePath |-> "Parent.tsx", componentName |-> "Parent", propName |-> Title] }

EditInit ==
  /\ Init
  /\ \A f \in Files : disk[f] \in EditTrees(f)
  /\ hostFault = NoFault

\* A file is saved with other content while no call is running.  Nothing
\* tells the GraphBuilder's analyzer: its project keeps the tree it holds.
Edit(f, tree) ==
  /\ pc \in {"idle", "done", "threw"}
  /\ edits < MaxEdits
  /\ tree # disk[f]
  /\ disk' = [disk EXCEPT ![f] = tree]
  /\ edits' = edits + 1
  /\ calls' = 0
  /\ pc' = "idle"
  /\ UNCHANGED << hostFault, cache, prior, reply, shown, request, chain, depth,
                  isComplete, ambiguous, trace, exhausted, hops, caught, searches,
                  lastSearch, other, listing >>

EditNext ==
  \/ \E r \in EditRequests : Call(r)
  \/ Hop
  \/ Finish
  \/ \E f \in Files : \E tree \in EditTrees(f) : Edit(f, tree)

EditSpec == EditInit /\ [][EditNext]_vars

\* ------------------------------------------- the analyzer called directly
\* An ASTAnalyzer whose public methods a client calls itself, as the tests
\* do, on App.tsx and on the files its re-exports name.

ReconnectText == <<"r","e">> \o ConnectText

AnalyzerTexts ==
  { <<>>,
    <<BlankLine>>,
    \* function Panel; const helper = () => ..; <Child label="hi"/>
    << DeclOn(FunctionDecl("Panel", 0)),
       DeclOn(VariableDecl("helper", 0, "arrow")),
       TagOn(Tag("selfClosing", "Child", 0, <<Attr(Label, 0, "string", QuotedHi)>>)) >>,
    \* const Panel = () => ..; <Child {...rest}>; <Child label={title}/>
    << DeclOn(VariableDecl("Panel", 0, "arrow")),
       TagOn(Tag("opening", "Child", 0, <<Spread(0)>>)),
       BlankLine,
       TagOn(Tag("selfClosing", "Child", 0, <<Attr(Label, 0, "expr", Title)>>)) >>,
    \* const Panel = React.memo(() => ..); const Child = reconnect(function () ..);
    \* class App; <Child label=<b/> {...rest}>
    << DeclOn(WrappedDecl("Panel", 0, ReactDot \o MemoText, "arrow")),
       DeclOn(WrappedDecl("Child", 0, ReconnectText, "funcExpr")),
       DeclOn(ClassDecl("App", 0)),
       TagOn(Tag("opening", "Child", 0, <<Attr(Label, 0, "element", <<>>), Spread(0)>>)) >>,
    \* export { Child as Panel } from "./Child"; const Parent = memo(memo(..));
    \* const App = 1; function helper; <Child label label="hi">;
    \* <Child title={label} {...rest}>
    << DeclOn(ReExportDecl("Panel", "Child", 0, "Child.tsx")),
       DeclOn(WrappedDecl("Parent", 0, MemoText, "call")),
       DeclOn(VariableDecl("App", 0, "literal")),
       DeclOn(FunctionDecl("helper", 0)),
       TagOn(Tag("opening", "Child", 0,
                 <<Attr(Label, 0, "none", <<>>), Attr(Label, 0, "string", QuotedHi)>>)),
       TagOn(Tag("opening", "Child", 0,
                 <<Attr(Title, 0, "expr", Label), Spread(0)>>)) >>,
    \* <Parent label="hi"/>; <Child title={label}/>; <Child label={title}/>
    << TagOn(Tag("selfClosing", "Parent", 0, <<Attr(Label, 0, "string", QuotedHi)>>)),
       TagOn(Tag("selfClosing", "Child", 0, <<Attr(Title, 0, "expr", Label)>>)),
       BlankLine,
       TagOn(Tag("selfClosing", "Child", 0, <<Attr(Label, 0, "expr", Title)>>)) >> }

AnalyzerTrees == { Parse(text) : text \in AnalyzerTexts }

AnalyzerChildTrees ==
  { [decls |-> <<FunctionDecl("Child", DeclLine)>>, tags |-> <<>>],
    [decls |-> <<VariableDecl("Child", DeclLine, "literal")>>, tags |-> <<>>] }

\* the greatest line a lookup is asked about
DocLines == Lines.lateDecl + 1

AnalyzerDisks ==
  { [f \in Files |->
       CASE f = "App.tsx" -> a
         [] f = "Child.tsx" -> c
         [] OTHER -> [decls |-> <<FunctionDecl("Parent", DeclLine)>>, tags |-> <<>>]] :
      a \in AnalyzerTrees, c \in AnalyzerChildTrees }

AnalyzerInit ==
  /\ disk \in AnalyzerDisks
  /\ hostFault \in {NoFault, [kind |-> "read", file |-> "App.tsx"]}
  /\ Constructed
  /\ listing = NotListed(PlainFile)

\* an analyzeFile call has returned `analyzed` (or thrown)
Answered(filePath, supplied, documentText, analyzed) ==
  /\ cache' = analyzed.cache
  /\ reply' = [NoReply EXCEPT !.op = "analyzeFile", !.filePath = filePath,
                              !.supplied = supplied, !.text = documentText,
                              !.threw = analyzed.threw,
                              !.components = analyzed.components,
                              !.tree = analyzed.cache[filePath].tree]
  /\ UNCHANGED << disk, hostFault, pc, calls, edits, prior, shown, request, chain,
                  depth, isComplete, ambiguous, trace, exhausted, hops, caught,
                  searches,
                  lastSearch, other, listing >>

\* analyzer.analyzeFile(filePath)
AnalyzeFileCall(filePath) ==
  /\ pc = "idle"
  /\ Answered(filePath, FALSE, <<>>, analyzeFile(cache, filePath))

\* analyzer.analyzeFile(filePath, documentText)
AnalyzeDocument(filePath, documentText) ==
  /\ pc = "idle"
  /\ Answered(filePath, TRUE, documentText,
              analyzeFileWithText(cache, filePath, documentText))

\* a usage lookup on the tree getSourceFile returned has returned `usage`
Looked(op, filePath, componentName, propName, nearLine, source, usage) ==
  /\ cache' = source.cache
  /\ reply' = [NoReply EXCEPT !.op = op, !.filePath = filePath,
                              !.componentName = componentName,
                              !.propName = propName, !.nearLine = nearLine,
                              !.threw = source.threw,
                              !.tree = source.sourceFile,
                              !.usage = usage]
  /\ UNCHANGED << disk, hostFault, pc, calls, edits, prior, shown, request, chain,
                  depth, isComplete, ambiguous, trace, exhausted, hops, caught,
                  searches,
                  lastSearch, other, listing >>

\* analyzer.findPropUsage(analyzer.getSourceFile(filePath), componentName, propName)
FindPropUsageCall(filePath, componentName, propName) ==
  /\ pc = "idle"
  /\ Looked("findPropUsage", filePath, componentName, propName, 0,
            getSourceFile(cache, filePath),
            findPropUsage(getSourceFile(cache, filePath).sourceFile,
                          componentName, propName))

\* analyzer.findPropUsageAtLocation(analyzer.getSourceFile(filePath),
\* componentName, propName, nearLine)
FindPropUsageAtLocationCall(filePath, componentName, propName, nearLine) ==
  /\ pc = "idle"
  /\ Looked("findPropUsageAtLocation", filePath, componentName, propName, nearLine,
            getSourceFile(cache, filePath),
            findPropUsageAtLocation(getSourceFile(cache, filePath).sourceFile,
                                    componentName, propName, nearLine))

AnalyzerNext ==
  \/ \E f \in {"App.tsx", "Child.tsx"} : AnalyzeFileCall(f)
  \/ \E text \in AnalyzerTexts : AnalyzeDocument("App.tsx", text)
  \/ \E propName \in {Label, Title} : FindPropUsageCall("App.tsx", "Child", propName)
  \/ \E propName \in {Label, Title} : \E nearLine \in 1..DocLines :
       FindPropUsageAtLocationCall("App.tsx", "Child", propName, nearLine)
  \/ \E tree \in AnalyzerTrees : Edit("App.tsx", tree)

AnalyzerSpec == AnalyzerInit /\ [][AnalyzerNext]_vars

\* ---------------------------------------------------------- properties

\* some element of some file of the workspace has tag name componentName
UsedSomewhere(componentName) ==
  \E f \in Files : \E i \in 1..Len(disk[f].tags) : disk[f].tags[i].name = componentName

\* the elements with tag name componentName are exactly the single element
\* `tag` of file f
OnlyUsage(componentName, f, tag) ==
  /\ disk[f].tags = <<tag>>
  /\ tag.name = componentName
  /\ \A g \in Files \ {f} :
       \A i \in 1..Len(disk[g].tags) : disk[g].tags[i].name # componentName

\* a returned chain reduced to what a scenario states of each node
Outline(returned) ==
  [i \in 1..Len(returned) |->
     <<returned[i].componentName, returned[i].propName, returned[i].type>>]

\* C1: in every returned trace the first node is typed SOURCE and, when the
\* chain has more than one node, the last is typed DEFINITION and every node
\* between them USAGE, whatever types the hops were given while traversing.
FinalTypesForced ==
  pc = "done" =>
    /\ trace.chain # <<>> => trace.chain[1].type = "SOURCE"
    /\ Len(trace.chain) > 1 =>
         /\ trace.chain[Len(trace.chain)].type = "DEFINITION"
         /\ \A i \in 2..(Len(trace.chain) - 1) : trace.chain[i].type = "USAGE"

\* C1 witness: a returned trace of three or more nodes one of whose middle
\* hops determineNodeType had typed SOURCE.
FinalTypesForcedWitness ==
  /\ pc = "done"
  /\ Len(trace.chain) >= 3
  /\ \E i \in 2..(Len(chain) - 1) : chain[i].type = "SOURCE"

\* C2: every returned chain has at least one node and at most maxDepth + 1.
ChainLengthBounded ==
  pc = "done" => (1 <= Len(trace.chain) /\ Len(trace.chain) <= MaxDepth + 1)

\* C2 witness: a trace of maxDepth + 1 nodes is returned (a usage cycle).
ChainLengthBoundedWitness ==
  /\ pc = "done"
  /\ Len(trace.chain) = MaxDepth + 1

\* C3, as claimed: a trace whose loop ended because a parent search found no
\* parent is returned complete, and a trace cut off by the depth bound is
\* returned incomplete.
IncompleteIffCutOff ==
  pc = "done" => (trace.isComplete <=> exhausted)

\* C4, as claimed: a trace is ambiguous exactly when one of its hops was
\* resolved through a spread attribute.
AmbiguousIffSpreadHop ==
  pc = "done" =>
    (trace.ambiguous <=> \E k \in 1..Len(hops) : hops[k].via = "spread")

\* C5: a call makes at most maxDepth parent searches, and a call that has
\* entered its loop returns a trace.
TerminatesWithinMaxDepth ==
  /\ [](searches <= MaxDepth)
  /\ (pc = "loop") ~> (pc = "done")

\* C5 witness: a trace returned after maxDepth parent searches every one of
\* which found a parent (a usage cycle).
TerminatesWithinMaxDepthWitness ==
  /\ pc = "done"
  /\ searches = MaxDepth
  /\ ~exhausted
  /\ \E i, j \in 1..Len(chain) :
       /\ i < j
       /\ chain[i].componentName = chain[j].componentName
       /\ chain[i].filePath = chain[j].filePath
       /\ chain[i].propName = chain[j].propName

ScenarioA ==
  /\ hostFault = NoFault
  /\ request = [filePath |-> "Child.tsx", componentName |-> "Child", propName |-> Label]
  /\ disk["Parent.tsx"].decls = <<FunctionDecl("Parent", DeclLine)>>
  /\ OnlyUsage("Child", "Parent.tsx",
               Tag("selfClosing", "Child", TagLine,
                   <<Attr(Label, TagLine, "string", QuotedHi)>>))
  /\ ~UsedSomewhere("Parent")

\* the value of hop k is a literal: quoted string, true, false or integer
LiteralHop(k) ==
  /\ hops[k].via = "attr"
  /\ \/ hops[k].value # NullValue /\ Head(hops[k].value) \in {"\"", "'"}
     \/ hops[k].value \in {TrueText, FalseText}
     \/ IsAllDigits(hops[k].value)

\* the text holds props. somewhere
ContainsPropsDot(text) ==
  \E i \in 1..Len(text) : StartsWith(Drop(text, i - 1), PropsDot)

\* C7, as claimed: in scenario A the trace is [Parent label SOURCE, Child
\* label DEFINITION], complete, not ambiguous.
ScenarioASourceNamedLabel ==
  (pc = "done" /\ ScenarioA) =>
    /\ Outline(trace.chain) = << <<"Parent", Label, "SOURCE">>,
                                 <<"Child", Label, "DEFINITION">> >>
    /\ trace.isComplete
    /\ ~trace.ambiguous

\* C7, amended: in scenario A the trace is [Parent "hi" SOURCE, Child label
\* DEFINITION], complete, not ambiguous; and in every trace a hop resolved
\* from a literal whose text does not hold props. carries the literal's text
\* (a string with its quotes) as its prop name.
ScenarioASourceNamedByLiteral ==
  pc = "done" =>
    /\ ScenarioA =>
         /\ Outline(trace.chain) = << <<"Parent", QuotedHi, "SOURCE">>,
                                      <<"Child", Label, "DEFINITION">> >>
         /\ trace.isComplete
         /\ ~trace.ambiguous
    /\ \A k \in 1..Len(hops) :
         (LiteralHop(k) /\ ~ContainsPropsDot(hops[k].value)) =>
           chain[k + 1].propName = hops[k].value

\* C7 witness: the trace of scenario A has been returned.
ScenarioAWitness ==
  /\ pc = "done"
  /\ ScenarioA
  /\ Len(trace.chain) = 2
  /\ LiteralHop(1)

\* an identifier of the language: letters, digits, _ and $, not starting
\* with a digit, and not the literal true or false
IsIdentifier(text) ==
  /\ text # <<>>
  /\ text[1] \in Letters \cup {"_", "$"}
  /\ \A i \in 1..Len(text) : text[i] \in Letters \cup Digits \cup {"_", "$"}
  /\ text \notin {TrueText, FalseText}

\* the text props.<identifier>
IsPropsAccess(text) ==
  /\ StartsWith(text, PropsDot)
  /\ IsIdentifier(Drop(text, Len(PropsDot)))

\* Scenario B extended by one level: App renders <Parent title="hi"/>, Parent
\* renders <Child label={title}/>, nothing renders App, no host fault; label
\* is traced on Child.
ScenarioB ==
  /\ hostFault = NoFault
  /\ request = [filePath |-> "Child.tsx", componentName |-> "Child", propName |-> Label]
  /\ disk["Parent.tsx"].decls = <<FunctionDecl("Parent", DeclLine)>>
  /\ OnlyUsage("Child", "Parent.tsx",
               Tag("selfClosing", "Child", TagLine,
                   <<Attr(Label, TagLine, "expr", Title)>>))
  /\ OnlyUsage("Parent", "App.tsx",
               Tag("selfClosing", "Parent", TagLine,
                   <<Attr(Title, TagLine, "string", QuotedHi)>>))
  /\ ~UsedSomewhere("App")

\* C8, as claimed: a hop whose value is a bare identifier, or props.<identifier>,
\* carries that identifier as its prop name; the search above a hop looks for
\* an attribute of that name on an element of the hop's component; and the
\* three-level example is traced as SOURCE, USAGE, DEFINITION.
RenamedAcrossHops ==
  pc = "done" =>
    /\ \A k \in 1..Len(hops) :
         hops[k].via = "attr" =>
           /\ IsIdentifier(hops[k].value) => chain[k + 1].propName = hops[k].value
           /\ IsPropsAccess(hops[k].value) =>
                chain[k + 1].propName = Drop(hops[k].value, Len(PropsDot))
    /\ \A k \in 1..Len(hops) :
         hops[k].via = "attr" =>
           /\ hops[k].tag.name = chain[k].componentName
           /\ \E i \in 1..Len(hops[k].tag.attrs) :
                /\ hops[k].tag.attrs[i].kind = "attr"
                /\ hops[k].tag.attrs[i].name = chain[k].propName
    /\ ScenarioB =>
         Outline(trace.chain) = << <<"App", QuotedHi, "SOURCE">>,
                                   <<"Parent", Title, "USAGE">>,
                                   <<"Child", Label, "DEFINITION">> >>

\* Scenario C: Parent.tsx's component Parent renders <Child {...rest}/>,
\* nothing else renders Child, nothing renders Parent, no host fault; a prop
\* is traced on Child from another file.
ScenarioC ==
  /\ hostFault = NoFault
  /\ request.componentName = "Child"
  /\ request.filePath # "Parent.tsx"
  /\ pc # "idle"
  /\ disk["Parent.tsx"].decls = <<FunctionDecl("Parent", DeclLine)>>
  /\ OnlyUsage("Child", "Parent.tsx",
               Tag("selfClosing", "Child", TagLine, <<Spread(TagLine)>>))
  /\ ~UsedSomewhere("Parent")

\* C9: in scenario C the call raises no error and its trace is ambiguous, of
\* two nodes and complete, whatever prop is traced.
SpreadScenarioAmbiguousComplete ==
  ScenarioC =>
    /\ pc # "threw"
    /\ pc = "done" =>
         /\ trace.ambiguous
         /\ Len(trace.chain) = 2
         /\ trace.isComplete

\* C9 witness: the trace of scenario C has been returned for a prop that no
\* element of the workspace names.
SpreadScenarioWitness ==
  /\ pc = "done"
  /\ ScenarioC
  /\ request.propName = Title
  /\ Len(hops) = 1
  /\ hops[1].via = "spread"

\* C10: a trace returned for a component that no element of the workspace
\* names has one node, the requested component and prop typed SOURCE, and is
\* complete and not ambiguous.
OrphanIsItsOwnSource ==
  (pc = "done" /\ ~UsedSomewhere(request.componentName)) =>
    /\ Len(trace.chain) = 1
    /\ trace.chain[1].componentName = request.componentName
    /\ trace.chain[1].filePath = request.filePath
    /\ trace.chain[1].propName = request.propName
    /\ trace.chain[1].type = "SOURCE"
    /\ trace.isComplete
    /\ ~trace.ambiguous

\* C10 witness: a trace has been returned for a component that the workspace
\* declares and no element names, after one parent search.
OrphanWitness ==
  /\ pc = "done"
  /\ hostFault = NoFault
  /\ ~UsedSomewhere(request.componentName)
  /\ request.filePath = request.componentName \o ".tsx"
  /\ searches = 1

\* C11: a trace every one of whose parent searches resolved to a parent (the
\* loop was never left through its break, as in a cycle of cross-file usages)
\* is returned incomplete with maxDepth + 1 nodes.
CycleCutOffAtMaxDepth ==
  (pc = "done" /\ ~exhausted) =>
    /\ ~trace.isComplete
    /\ Len(trace.chain) = MaxDepth + 1

\* C11 witness: Child.tsx renders Parent and Parent.tsx renders Child, each
\* passing on the prop it receives; the trace of label on Child has come back
\* after maxDepth resolved hops that alternate between the two files.
CycleCutOffWitness ==
  /\ pc = "done"
  /\ ~exhausted
  /\ Len(hops) = MaxDepth
  /\ request.componentName = "Child"
  /\ \A i \in 1..Len(chain) :
       chain[i].componentName = (IF i % 2 = 1 THEN "Child" ELSE "Parent")

\* C12, as claimed: a call that follows a call with the same arguments, no
\* file having changed in between, returns the trace that call returned.
RepeatedCallSameTrace ==
  (pc = "done" /\ prior.known) => trace = prior.trace

\* the components a text declares itself, as analyzeFile lists them
DeclaredIn(text) ==
  FunctionComponents(Parse(text)) \o VariableComponents(Parse(text))

\* C13, as claimed: after analyzeFile was called with a document text, the
\* call has not thrown, the tree held for the path is the parsed text and the
\* components returned begin with those the text declares, whatever the text,
\* the tree held before and the file on disk.
SuppliedTextWins ==
  (reply.op = "analyzeFile" /\ reply.supplied) =>
    /\ ~reply.threw
    /\ cache[reply.filePath] = Loaded(Parse(reply.text))
    /\ Len(reply.components) >= Len(DeclaredIn(reply.text))
    /\ SubSeq(reply.components, 1, Len(DeclaredIn(reply.text))) = DeclaredIn(reply.text)

\* the callee is memo, forwardRef, observer or connect, alone or after a
\* namespace and a dot
IsRecognizedCallee(callee) ==
  \E wrapper \in {MemoText, ForwardRefText, ObserverText, ConnectText} :
    \/ callee = wrapper
    \/ /\ EndsWith(callee, <<".">> \o wrapper)
       /\ IsIdentifier(SubSeq(callee, 1, Len(callee) - Len(wrapper) - 1))

\* the declaration is one of the three forms of the claim and its name
\* starts with an uppercase letter
IsCandidate(decl) ==
  /\ StartsUppercase(decl.name)
  /\ \/ decl.form = "function"
     \/ decl.form = "variable" /\ decl.init \in {"arrow", "funcExpr"}
     \/ /\ decl.form = "variable"
        /\ decl.init = "call"
        /\ IsRecognizedCallee(decl.callee)
        /\ decl.arg \in {"arrow", "funcExpr"}

\* C14, as claimed: analyzeFile returns an entry for a name exactly when the
\* file declares that name as a function, as a variable bound to a function,
\* or as a variable bound to a function wrapped by one memo, forwardRef,
\* observer or connect call, the name starting with an uppercase letter.
ListsExactlyCandidates ==
  (reply.op = "analyzeFile" /\ ~reply.threw) =>
    \A name \in DOMAIN NameText :
      (\E i \in 1..Len(reply.components) : reply.components[i].name = name)
      <=> (\E k \in 1..Len(reply.tree.decls) :
             /\ reply.tree.decls[k].name = name
             /\ IsCandidate(reply.tree.decls[k]))

\* the element is named componentName and has an attribute named propName
Carries(tag, componentName, propName) ==
  /\ tag.name = componentName
  /\ \E i \in 1..Len(tag.attrs) :
       tag.attrs[i].kind = "attr" /\ tag.attrs[i].name = propName

\* C15, as claimed: when an element of the file, paired or self-closing, is
\* named componentName and has an attribute named propName, findPropUsage
\* returns a usage, taken from an element that stands no later than the first
\* such element.
FindPropUsageSeesBothKinds ==
  (reply.op = "findPropUsage" /\ ~reply.threw) =>
    \A k \in 1..Len(reply.tree.tags) :
      Carries(reply.tree.tags[k], reply.componentName, reply.propName) =>
        /\ reply.usage.found
        /\ reply.usage.tag.line <= reply.tree.tags[k].line

\* the element that findPropUsageAtLocation inspects
Inspected ==
  ClosestFrom(MatchingComponents(reply.tree, reply.componentName), reply.nearLine,
              MatchingComponents(reply.tree, reply.componentName)[1])

\* the attributes of the inspected element that are named propName
NamedAttributes ==
  LET IsNamed(a) == a.kind = "attr" /\ a.name = reply.propName
  IN  SelectSeq(Inspected.attrs, IsNamed)

\* C16, as claimed: in the element a lookup inspects, the first attribute
\* named propName gives the result (true when bare, the literal with its
\* quotes for a string, the expression text for braces); the sentinel is the
\* result only when no attribute has the name and the element has a spread
\* attribute; the result is null when it has neither.
FirstNamedAttributeDecides ==
  (/\ reply.op = "findPropUsageAtLocation"
   /\ ~reply.threw
   /\ MatchingComponents(reply.tree, reply.componentName) # <<>>) =>
    IF NamedAttributes # <<>>
    THEN /\ reply.usage.found
         /\ reply.usage.via = "attr"
         /\ NamedAttributes[1].init = "none" => reply.usage.value = TrueText
         /\ NamedAttributes[1].init \in {"string", "expr"} =>
              reply.usage.value = NamedAttributes[1].text
    ELSE IF \E i \in 1..Len(Inspected.attrs) : Inspected.attrs[i].kind = "spread"
    THEN /\ reply.usage.found
         /\ reply.usage.via = "spread"
         /\ reply.usage.value = SpreadSentinel
    ELSE ~reply.usage.found

\* C17, as claimed: when the command has navigated or shown its message, it
\* has navigated to the node just before the DEFINITION node (the last but
\* one of the chain) if the trace has two nodes or more, and shown the
\* message if it has fewer.
UpstreamShowsImmediateParent ==
  (pc = "done" /\ shown.kind \in {"navigate", "message"}) =>
    IF Len(trace.chain) >= 2
    THEN /\ shown.kind = "navigate"
         /\ shown.filePath = trace.chain[Len(trace.chain) - 1].filePath
         /\ shown.line = trace.chain[Len(trace.chain) - 1].lineCode - 1
    ELSE shown.kind = "message"

\* C18, as claimed: a hop whose value is a literal is the last hop of its
\* trace: no parent is found above it, and it is the first node returned.
LiteralHopIsTerminal ==
  pc = "done" =>
    \A k \in 1..Len(hops) :
      LiteralHop(k) =>
        /\ k = Len(hops)
        /\ trace.chain[1].componentName = chain[k + 1].componentName
        /\ trace.chain[1].filePath = chain[k + 1].filePath

\* The usages of a search that lie outside the searched node's file, in
\* search order.
OutsideUsages ==
  LET Outside(location) == location.file # lastSearch.node.filePath
  IN  SelectSeq(lastSearch.usages, Outside)

\* A usage resolves for a node when its file can be read, the element there
\* passes the node's prop (by a named attribute or a spread), and a component
\* declared in that file at or above the attribute's line encloses it.
Resolves(location, node) ==
  /\ ~ReadFails(location.file)
  /\ findPropUsageAtLocation(disk[location.file], node.componentName,
                             node.propName, location.line + 1).found
  /\ ClosestComponent(
       analyzeFile([f \in Files |-> NotLoaded], location.file).components,
       findPropUsageAtLocation(disk[location.file], node.componentName,
                               node.propName, location.line + 1).line,
       [found |-> FALSE, name |-> "", line |-> 0]).found

\* C19: in one parent search the usages outside the node's file are analyzed
\* in search order and only up to the first that resolves, which becomes the
\* next hop; the search ends without a parent, the node becoming the source
\* end of the chain, only when every such usage was analyzed and none
\* resolves.
FirstResolvingUsageWins ==
  (searches > 0 /\ pc # "threw") =>
    /\ Len(lastSearch.examined) <= Len(OutsideUsages)
    /\ \A i \in 1..Len(lastSearch.examined) :
         /\ lastSearch.examined[i] = OutsideUsages[i]
         /\ i < Len(lastSearch.examined) =>
              ~Resolves(lastSearch.examined[i], lastSearch.node)
    /\ IF lastSearch.found
       THEN /\ lastSearch.examined # <<>>
            /\ Resolves(lastSearch.examined[Len(lastSearch.examined)], lastSearch.node)
            /\ chain[Len(chain)].filePath =
                 lastSearch.examined[Len(lastSearch.examined)].file
            /\ chain[Len(chain) - 1] = lastSearch.node
            /\ ~exhausted
       ELSE /\ lastSearch.examined = OutsideUsages
            /\ \A i \in 1..Len(OutsideUsages) :
                 ~Resolves(OutsideUsages[i], lastSearch.node)
            /\ exhausted
            /\ chain[Len(chain)].type = "SOURCE"

\* C19 witness: a search that analyzed a usage which does not resolve, then
\* one which does and became the next hop, and left a later usage outside
\* the node's file, which would resolve too, unanalyzed.
FirstResolvingUsageWitness ==
  /\ searches > 0
  /\ lastSearch.found
  /\ Len(lastSearch.examined) >= 2
  /\ Len(lastSearch.examined) < Len(OutsideUsages)
  /\ Resolves(OutsideUsages[Len(OutsideUsages)], lastSearch.node)

\* file f holds an element named componentName
HasTag(f, componentName) ==
  \E i \in 1..Len(disk[f].tags) : disk[f].tags[i].name = componentName

\* file f holds a declaration named componentName
Declares(f, componentName) ==
  \E i \in 1..Len(disk[f].decls) : disk[f].decls[i].name = componentName

\* no parent search analyzes a usage in the searched node's own file, and no
\* two neighbours of a returned chain lie in one file
NeighboursInDifferentFiles ==
  /\ \A i \in 1..Len(lastSearch.examined) :
       lastSearch.examined[i].file # lastSearch.node.filePath
  /\ pc = "done" =>
       \A k \in 1..(Len(trace.chain) - 1) :
         trace.chain[k].filePath # trace.chain[k + 1].filePath

ListedIn(f) == analyzeFile([g \in Files |-> NotLoaded], f).components

\* component number i of file f is declared at or before `line`, and no
\* component of f is declared between it and `line`
NearestPreceding(f, i, line) ==
  /\ ListedIn(f)[i].line <= line
  /\ \A j \in 1..Len(ListedIn(f)) :
       ListedIn(f)[j].line <= line => ListedIn(f)[j].line <= ListedIn(f)[i].line

\* the attribute or spread element found for `node` at `location`
UsageAt(location, node) ==
  findPropUsageAtLocation(disk[location.file], node.componentName, node.propName,
                          location.line + 1)

\* `location` passes the prop of `node`, in a readable file none of whose
\* components is declared at or before the line of the usage
Unattributable(location, node) ==
  /\ ~ReadFails(location.file)
  /\ UsageAt(location, node).found
  /\ \A i \in 1..Len(ListedIn(location.file)) :
       ListedIn(location.file)[i].line > UsageAt(location, node).line

\* C21: every hop is attributed to the component of the usage's file that is
\* declared at the greatest line not after the usage's line; a usage with no
\* component declared at or before its line adds no node and does not end
\* the search: it is never the usage that resolved, and the usage after it,
\* when there is one, is analyzed as well.
NearestPrecedingDeclarationEncloses ==
  /\ \A k \in 1..Len(hops) :
       \E i \in 1..Len(ListedIn(chain[k + 1].filePath)) :
         /\ ListedIn(chain[k + 1].filePath)[i].name = chain[k + 1].componentName
         /\ NearestPreceding(chain[k + 1].filePath, i, hops[k].line)
  /\ (searches > 0 /\ pc # "threw") =>
       \A i \in 1..Len(lastSearch.examined) :
         Unattributable(lastSearch.examined[i], lastSearch.node) =>
           /\ lastSearch.found => i < Len(lastSearch.examined)
           /\ i < Len(OutsideUsages) => i < Len(lastSearch.examined)

\* C21 witness: a search whose first usage passes the prop above every
\* declaration of its file, and which went on to a usage in another file,
\* where the hop was attributed to the second of the two components
\* declared before the usage.
UnattributableUsagePassedOver ==
  /\ searches > 0
  /\ lastSearch.found
  /\ Len(lastSearch.examined) >= 2
  /\ Unattributable(lastSearch.examined[1], lastSearch.node)
  /\ chain[Len(chain)].componentName = "Panel"
  /\ \E i \in 1..Len(ListedIn(chain[Len(chain)].filePath)) :
       /\ ListedIn(chain[Len(chain)].filePath)[i].name = "Parent"
       /\ ListedIn(chain[Len(chain)].filePath)[i].line <= hops[Len(hops)].line

\* the elements of the tree looked at that bear the name asked for
NamedTags ==
  LET Named(t) == t.name = reply.componentName
  IN  SelectSeq(reply.tree.tags, Named)

\* no element bearing the name starts nearer to the line asked about than
\* NamedTags[i]
StartsNearest(i) ==
  \A j \in 1..Len(NamedTags) :
    Abs(NamedTags[i].line - reply.nearLine) <= Abs(NamedTags[j].line - reply.nearLine)

\* C22: a usage lookup at a line answers from the attributes of one element
\* bearing the component's name, one that starts nearest to the line, and
\* from nothing else; it answers null when no element bears the name.
NearestTagAloneInspected ==
  (reply.op = "findPropUsageAtLocation" /\ ~reply.threw) =>
    IF NamedTags = <<>> THEN ~reply.usage.found
    ELSE \E i \in 1..Len(NamedTags) :
           /\ StartsNearest(i)
           /\ reply.usage = InspectClosest(NamedTags[i], reply.propName)

\* C22 witness: a lookup answered null from the nearest element bearing the
\* name, while an element of another name and a farther element bearing
\* the name both carry the attribute.
NearestTagAloneWitness ==
  /\ reply.op = "findPropUsageAtLocation"
  /\ ~reply.threw
  /\ ~reply.usage.found
  /\ \E j \in 1..Len(NamedTags) :
       ~StartsNearest(j) /\ InspectClosest(NamedTags[j], reply.propName).found
  /\ \E k \in 1..Len(reply.tree.tags) :
       /\ reply.tree.tags[k].name # reply.componentName
       /\ InspectClosest(reply.tree.tags[k], reply.propName).found

\* ------------------------------------------------ a call as one function

NothingLoaded == [f \in Files |-> NotLoaded]

\* buildPropChain from "if (depth >= this.maxDepth)" on: the PropTrace
\* returned for the nodes pushed in d iterations
Returned(r, nodes, d, isAmbiguous) ==
  [propName |-> r.propName, chain |-> markTypes(Reverse(nodes)),
   isComplete |-> completeness(d, TRUE), ambiguous |-> isAmbiguous]

\* buildPropChain from its loop on, run to its return by an engine whose
\* analyzer holds the trees c: the trace returned and the trees held then
RECURSIVE LoopFrom(_, _, _, _, _), AfterSearch(_, _, _, _, _)
LoopFrom(r, nodes, c, d, isAmbiguous) ==
  IF LoopGuard(d)
  THEN AfterSearch(r, nodes, d + 1, isAmbiguous, findParentNode(nodes[Len(nodes)], c))
  ELSE [threw |-> FALSE, cache |-> c, trace |-> Returned(r, nodes, d, isAmbiguous)]

AfterSearch(r, nodes, d, isAmbiguous, parentNode) ==
  IF ~parentNode.found
  THEN [threw |-> FALSE, cache |-> parentNode.cache,
        trace |-> Returned(r, [nodes EXCEPT ![Len(nodes)].type = "SOURCE"], d,
                           isAmbiguous)]
  ELSE LoopFrom(r, Append(nodes, parentNode.node), parentNode.cache, d,
                isAmbiguous \/ parentNode.node.propName = SpreadSentinel)

\* buildPropChain(r.filePath, r.componentName, r.propName) after its
\* analyzeFile call has returned `analyzed`
TraceAfter(r, analyzed) ==
  IF analyzed.threw
  THEN [threw |-> TRUE, cache |-> analyzed.cache, trace |-> EmptyTrace]
  ELSE LoopFrom(r,
                << [componentName |-> r.componentName,
                    filePath |-> r.filePath,
                    propName |-> r.propName,
                    lineCode |-> LineOf(analyzed.components, r.componentName),
                    type |-> "DEFINITION"] >>,
                analyzed.cache, 0, FALSE)

\* what buildPropChain returns, or that it throws, on an engine whose
\* analyzer holds the trees c
buildPropChain(c, r) == TraceAfter(r, analyzeFile(c, r.filePath))

\* C23, as claimed: a call returns, or throws, as a call to an engine that
\* has parsed nothing would on the files as they are.
CacheIsPureOptimization ==
  /\ pc = "done" =>
       /\ ~buildPropChain(NothingLoaded, request).threw
       /\ trace = buildPropChain(NothingLoaded, request).trace
  /\ pc = "threw" => buildPropChain(NothingLoaded, request).threw

\* no file has been rewritten since the engine was constructed
FilesNeverChanged == edits = 0

\* on files that never changed, a call returns as a call to an engine that
\* has parsed nothing would
CacheUnseenWithoutEdits ==
  FilesNeverChanged => CacheIsPureOptimization

SpreadHop(k) == hops[k].via = "spread"

\* C28: from a hop resolved through a spread attribute upward, every node
\* carries the sentinel as its prop name and every hop is resolved through a
\* spread attribute; in the returned chain the nodes from the first one down
\* to that hop's carry the sentinel; and ambiguous, once set, stays set until
\* the next call starts, the returned trace bearing it.
SpreadStaysSpread ==
  /\ [](\A k \in 1..Len(hops) :
          SpreadHop(k) =>
            /\ ambiguous
            /\ \A j \in k..Len(hops) :
                 SpreadHop(j) /\ chain[j + 1].propName = SpreadSentinel)
  /\ [](pc = "done" =>
          /\ trace.ambiguous = ambiguous
          /\ \A k \in 1..Len(hops) :
               SpreadHop(k) =>
                 \A i \in 1..(Len(trace.chain) - k) :
                   trace.chain[i].propName = SpreadSentinel)
  /\ [][(ambiguous /\ calls' = calls) => ambiguous']_vars

\* C28 witness: a returned trace whose first hop found the named attribute,
\* whose second was resolved through a spread attribute and whose third
\* again.
SpreadStaysSpreadWitness ==
  /\ pc = "done"
  /\ Len(hops) >= 3
  /\ hops[1].via = "attr"
  /\ SpreadHop(2)
  /\ SpreadHop(3)
  /\ trace.ambiguous

\* ------------------------------------------------- two calls at once
\* Two buildPropChain calls on one GraphBuilder: each runs up to an awaited
\* workspace search and is resumed after it, the other running in between.
\* The chain, depth and flags are locals of each call; the analyzer's
\* project is the one thing they share.

\* the ladder, and the workspaces in which every file renders a component
\* of another: App and Child render Parent, Parent renders Child
ConcurrentDisks ==
  { d \in Disks :
      \/ d = LadderDisk
      \/ /\ d["App.tsx"].decls = <<FunctionDecl("App", DeclLine)>>
         /\ Len(d["App.tsx"].tags) = 1
         /\ d["App.tsx"].tags[1].name = "Parent"
         /\ d["App.tsx"].tags[1].attrs[1].kind = "spread"
            \/ d["App.tsx"].tags[1].attrs[1].text = Label
         /\ Len(d["Child.tsx"].tags) = 1
         /\ d["Child.tsx"].tags[1].name = "Parent"
         /\ d["Parent.tsx"].decls = <<FunctionDecl("Parent", DeclLine)>>
         /\ Len(d["Parent.tsx"].tags) = 1
         /\ Len(d["Parent.tsx"].tags[1].attrs) = 1
         /\ d["Parent.tsx"].tags[1].attrs[1].kind = "spread"
            \/ d["Parent.tsx"].tags[1].attrs[1].text \in {Title, QuotedHi} }

ConcurrentRequests ==
  { [filePath |-> "Child.tsx", componentName |-> "Child", propName |-> Label],
    [filePath |-> "Parent.tsx", componentName |-> "Parent", propName |-> Title],
    [filePath |-> "App.tsx", componentName |-> "Child", propName |-> Label] }

ConcurrentInit ==
  /\ disk \in ConcurrentDisks
  /\ hostFault \in {NoFault, [kind |-> "read", file |-> "Parent.tsx"]}
  /\ Constructed
  /\ listing = NotListed(PlainFile)

\* the second call up to its loop, analyzed being analyzeFile's outcome
OtherStarted(r, analyzed) ==
  IF analyzed.threw
  THEN [NotCalled EXCEPT !.pc = "threw", !.request = r]
  ELSE [NotCalled EXCEPT
          !.pc = "loop", !.request = r,
          !.chain = << [componentName |-> r.componentName,
                        filePath |-> r.filePath,
                        propName |-> r.propName,
                        lineCode |-> LineOf(analyzed.components, r.componentName),
                        type |-> "DEFINITION"] >>]

\* the second call is made
OtherCall(r) ==
  /\ other.pc = "idle"
  /\ cache' = analyzeFile(cache, r.filePath).cache
  /\ other' = OtherStarted(r, analyzeFile(cache, r.filePath))
  /\ UNCHANGED << disk, hostFault, pc, calls, edits, prior, reply, shown, request,
                  chain, depth, isComplete, ambiguous, trace, exhausted, hops,
                  caught, searches, lastSearch, listing >>

\* the first call stands between two of its hops
Suspended == pc = "loop" /\ depth > 0 /\ LoopGuard(depth)

\* the second call's loop body after findParentNode has returned parentNode;
\* overlapped is history: one of its hops ran while the first call stood
\* between two of its own
OtherAfterSearch(parentNode) ==
  IF ~parentNode.found
  THEN [other EXCEPT !.pc = "post", !.depth = @ + 1,
                     !.chain = [@ EXCEPT ![Len(@)].type = "SOURCE"],
                     !.overlapped = @ \/ Suspended]
  ELSE [other EXCEPT !.depth = @ + 1,
                     !.chain = Append(@, parentNode.node),
                     !.ambiguous = @ \/ parentNode.node.propName = SpreadSentinel,
                     !.overlapped = @ \/ Suspended]

\* one iteration of the second call's loop
OtherHop ==
  /\ other.pc = "loop"
  /\ LoopGuard(other.depth)
  /\ cache' = findParentNode(other.chain[Len(other.chain)], cache).cache
  /\ other' = OtherAfterSearch(findParentNode(other.chain[Len(other.chain)], cache))
  /\ UNCHANGED << disk, hostFault, pc, calls, edits, prior, reply, shown, request,
                  chain, depth, isComplete, ambiguous, trace, exhausted, hops,
                  caught, searches, lastSearch, listing >>

\* the second call after its loop
OtherFinish ==
  /\ \/ other.pc = "post"
     \/ other.pc = "loop" /\ ~LoopGuard(other.depth)
  /\ other' = [other EXCEPT
                 !.pc = "done",
                 !.trace = Returned(other.request, other.chain, other.depth,
                                    other.ambiguous)]
  /\ UNCHANGED << disk, hostFault, cache, pc, calls, edits, prior, reply, shown,
                  request, chain, depth, isComplete, ambiguous, trace, exhausted,
                  hops, caught, searches, lastSearch, listing >>

ConcurrentNext ==
  \/ \E r \in ConcurrentRequests : Call(r)
  \/ Hop
  \/ Finish
  \/ \E r \in ConcurrentRequests : OtherCall(r)
  \/ OtherHop
  \/ OtherFinish

ConcurrentSpec == ConcurrentInit /\ [][ConcurrentNext]_vars

\* what the call for r1 and then, on the same engine, the call for r2 come
\* to when the first has returned or thrown before the second is made
OneAfterTheOther(r1, r2) ==
  [first |-> [threw |-> buildPropChain(NothingLoaded, r1).threw,
              trace |-> buildPropChain(NothingLoaded, r1).trace],
   second |-> [threw |-> buildPropChain(buildPropChain(NothingLoaded, r1).cache, r2).threw,
               trace |-> buildPropChain(buildPropChain(NothingLoaded, r1).cache, r2).trace]]

\* what the two calls have come to
Outcome(at, returned) == [threw |-> at = "threw", trace |-> returned]

\* C29: when two calls on one GraphBuilder have both ended, however their
\* hops were interleaved, each has returned (or thrown) what it does when
\* the two run one after the other, in either order.
InterleavedAsSequential ==
  (pc \in {"done", "threw"} /\ other.pc \in {"done", "threw"}) =>
    /\ OneAfterTheOther(request, other.request).first = Outcome(pc, trace)
    /\ OneAfterTheOther(request, other.request).second = Outcome(other.pc, other.trace)
    /\ OneAfterTheOther(other.request, request).first = Outcome(other.pc, other.trace)
    /\ OneAfterTheOther(other.request, request).second = Outcome(pc, trace)

\* C29 witness: two different calls have returned, the first a trace of
\* three nodes or more, the second one of two or more, one ambiguous and one
\* not, a hop of the second having run between two hops of the first.
InterleavedWitness ==
  /\ pc = "done"
  /\ other.pc = "done"
  /\ other.overlapped
  /\ request # other.request
  /\ Len(trace.chain) >= 3
  /\ Len(other.trace.chain) >= 2
  /\ trace.ambiguous # other.trace.ambiguous

\* ------------------------------------------------- prop lists asked for
\* analyzeFile asked for the component of one file whose first parameter,
\* type annotation and type declarations vary.

\* the type reference `name`
Named(name) == TypeReference(<<name>>, <<>>)

\* the type declarations of a file
TypeEnvironments ==
  { <<>>,
    <<Interface("CardProps", <<"label", "title">>, <<>>)>>,
    <<TypeAlias("CardProps", TypeLiteral(<<"label">>))>>,
    <<Interface("P", <<"label">>, <<>>),
      TypeAlias("CardProps", TypeLiteral(<<"title">>))>>,
    \* type P = Base & (A | B)
    <<TypeAlias("P", IntersectionType(<<Named("Base"),
                       ParenthesizedType(UnionType(<<Named("A"), Named("B")>>))>>)),
      TypeAlias("Base", TypeLiteral(<<"id">>)),
      TypeAlias("A", TypeLiteral(<<"label">>)),
      TypeAlias("B", TypeLiteral(<<"title">>))>>,
    \* type P = A | B
    <<TypeAlias("P", UnionType(<<Named("A"), Named("B")>>)),
      TypeAlias("A", TypeLiteral(<<"label", "id">>)),
      Interface("B", <<"title", "id">>, <<>>)>>,
    \* type P = { id } & A
    <<TypeAlias("P", IntersectionType(<<TypeLiteral(<<"id">>), Named("A")>>)),
      TypeAlias("A", TypeLiteral(<<"label">>))>>,
    \* interface P extends Base
    <<Interface("P", <<"label">>, <<Named("Base")>>),
      Interface("Base", <<"id">>, <<>>)>>,
    \* interface P extends B, interface B extends P
    <<Interface("P", <<"label">>, <<Named("B")>>),
      Interface("B", <<"title">>, <<Named("P")>>)>>,
    \* type P = B, type B = P
    <<TypeAlias("P", Named("B")), TypeAlias("B", Named("P"))>>,
    \* type P = Q
    <<TypeAlias("P", Named("Q")), TypeAlias("Q", TypeLiteral(<<"label">>))>>,
    \* type P = PropsWithChildren<Q>
    <<TypeAlias("P", TypeReference(<<"PropsWithChildren">>, <<Named("Q")>>)),
      Interface("Q", <<"label">>, <<>>)>>,
    \* type P = React.PropsWithRef<Q>
    <<TypeAlias("P", TypeReference(<<"React", ".", "PropsWithRef">>, <<Named("Q")>>)),
      Interface("Q", <<"label", "ref">>, <<>>)>> }

\* the parameters of the component's function
ParameterLists ==
  { <<>>,
    <<ObjectBindingPattern(<<"label", "onPress">>, NoTypeNode)>>,
    <<ObjectBindingPattern(<<"title">>, Named("P"))>>,
    <<ObjectBindingPattern(<<>>, Named("P"))>>,
    <<IdentifierParameter(NoTypeNode)>>,
    <<IdentifierParameter(TypeLiteral(<<"title", "id">>))>>,
    <<IdentifierParameter(Named("P"))>>,
    <<IdentifierParameter(TypeReference(<<"PropsWithChildren">>, <<Named("P")>>))>>,
    <<IdentifierParameter(TypeReference(<<"React", ".", "PropsWithChildren">>,
                                        <<Named("P")>>))>>,
    <<IdentifierParameter(TypeReference(<<"PropsWithRef">>, <<Named("P")>>))>> }

\* the type annotation of the component's variable
Annotations ==
  { NoTypeNode,
    TypeReference(<<"FC">>, <<>>),
    TypeReference(<<"FC">>, <<TypeLiteral(<<"title">>)>>),
    TypeReference(<<"FC">>, <<Named("P")>>),
    TypeReference(<<"React", ".", "FC">>,
                  <<TypeReference(<<"PropsWithChildren">>, <<Named("P")>>)>>) }

TypedComponents ==
  { TypedComponent("function", "Card", params, NoTypeNode) : params \in ParameterLists }
  \cup { TypedComponent(form, "Card", params, annotation) :
           form \in {"variable", "wrapped"}, params \in ParameterLists,
           annotation \in Annotations }

TypedFiles ==
  { TypedFile(types, component) :
      types \in TypeEnvironments, component \in TypedComponents }

PropsInit ==
  /\ disk = LadderDisk
  /\ hostFault = NoFault
  /\ Constructed
  /\ listing \in { NotListed(file) : file \in TypedFiles }

\* analyzeFile on the file: its component's props, or the RangeError of a
\* call stack used up, which nothing between resolveTypeToProps and the
\* caller of analyzeFile catches
ListComponents ==
  /\ ~listing.asked
  /\ listing' = [file |-> listing.file,
                 asked |-> TRUE,
                 threw |-> PropsOf(listing.file, StackDepth).overflow,
                 props |-> PropsOf(listing.file, StackDepth).props]
  /\ UNCHANGED << disk, hostFault, cache, pc, calls, edits, prior, reply, shown,
                  request, chain, depth, isComplete, ambiguous, trace, exhausted,
                  hops, caught, searches, lastSearch, other >>

PropsNext == ListComponents

PropsSpec == PropsInit /\ [][PropsNext]_vars

\* the first parameter of the listed file's component, if it has one
HasParameter == listing.file.component.params # <<>>

FirstParameter == listing.file.component.params[1]

\* the listed file's component is annotated with a generic type whose first
\* argument has the given kind
AnnotationArgumentIs(kind) ==
  /\ listing.file.component.annotation.kind = "reference"
  /\ listing.file.component.annotation.types # <<>>
  /\ listing.file.component.annotation.types[1].kind = kind

AnnotationArgument == listing.file.component.annotation.types[1]

\* rule 1: the destructuring pattern of the first parameter
DestructuredNames ==
  IF HasParameter /\ FirstParameter.binding = "object"
  THEN FirstParameter.elements ELSE <<>>

\* rule 2: an inline type literal on the first parameter or on the generic
\* argument of the annotation
InlineLiteralNames ==
  IF HasParameter /\ FirstParameter.typeNode.kind = "literal"
     /\ FirstParameter.typeNode.members # <<>>
  THEN FirstParameter.typeNode.members
  ELSE IF AnnotationArgumentIs("literal") THEN AnnotationArgument.members
  ELSE <<>>

\* rule 3: the named type of the first parameter or of the generic argument
\* of the annotation, resolved
NamedTypeNames ==
  IF /\ HasParameter /\ FirstParameter.typeNode.kind = "reference"
     /\ resolveTypeToProps(listing.file, FirstParameter.typeNode.name,
                           StackDepth).props # <<>>
  THEN resolveTypeToProps(listing.file, FirstParameter.typeNode.name, StackDepth).props
  ELSE IF AnnotationArgumentIs("reference")
  THEN resolveTypeToProps(listing.file, getText(AnnotationArgument), StackDepth).props
  ELSE <<>>

\* rule 4: the type named after the component
ConventionNames == extractPropsFromTypeDefinition(listing.file, listing.file.component.name)

FirstRuleThatYields ==
  IF DestructuredNames # <<>> THEN DestructuredNames
  ELSE IF InlineLiteralNames # <<>> THEN InlineLiteralNames
  ELSE IF NamedTypeNames # <<>> THEN NamedTypeNames
  ELSE ConventionNames

\* C24: whatever the form of the component candidate (function declaration,
\* variable holding a function, function inside a wrapper call), the prop
\* list analyzeFile returns for it is what the first of the four rules that
\* yields a name yields: destructuring pattern, inline type literal on the
\* parameter or on the annotation's generic argument, named type of the
\* parameter or of that argument, type named <ComponentName>Props.
FirstRuleWins ==
  (listing.asked /\ ~listing.threw) => listing.props = FirstRuleThatYields

\* the prop names of a type read structurally: of a literal its members, of
\* a named type those of its declaration (an interface's own and inherited
\* ones), of an intersection, a union or a parenthesized type those of every
\* operand
RECURSIVE BranchNames(_, _, _), NamesOfEach(_, _, _)
BranchNames(sourceFile, typeNode, fuel) ==
  IF fuel = 0 THEN <<>>
  ELSE CASE typeNode.kind = "literal" -> typeNode.members
         [] typeNode.kind = "reference" ->
              IF getTypeAlias(sourceFile, typeNode.name).found
              THEN BranchNames(sourceFile,
                               getTypeAlias(sourceFile, typeNode.name).decl.typeNode,
                               fuel - 1)
              ELSE IF getInterface(sourceFile, typeNode.name).found
              THEN getInterface(sourceFile, typeNode.name).decl.properties
                   \o NamesOfEach(sourceFile,
                                  getInterface(sourceFile, typeNode.name).decl.extends,
                                  fuel - 1)
              ELSE <<>>
         [] typeNode.kind \in {"intersection", "union", "parenthesized"} ->
              NamesOfEach(sourceFile, typeNode.types, fuel)
         [] OTHER -> <<>>

NamesOfEach(sourceFile, types, fuel) ==
  IF types = <<>> THEN <<>>
  ELSE BranchNames(sourceFile, Head(types), fuel)
       \o NamesOfEach(sourceFile, Tail(types), fuel)

\* the listed component takes one undestructured parameter whose type is a
\* named type declared as an intersection or a union
ParameterOfCompositeType ==
  /\ HasParameter
  /\ FirstParameter.binding = "identifier"
  /\ FirstParameter.typeNode.kind = "reference"
  /\ FirstParameter.typeNode.types = <<>>
  /\ getTypeAlias(listing.file, FirstParameter.typeNode.name).found
  /\ getTypeAlias(listing.file, FirstParameter.typeNode.name).decl.typeNode.kind
       \in {"intersection", "union"}

\* C25: a component whose undestructured parameter has a named type
\* declared as an intersection or a union is listed with the prop names of
\* all the branches of that type, nested and parenthesized ones included,
\* each name once.
CompositeListsEveryBranch ==
  (listing.asked /\ ~listing.threw /\ ParameterOfCompositeType)
    => listing.props = Unique(BranchNames(listing.file, FirstParameter.typeNode,
                                          StackDepth))

\* the type whose props the listed component gets: the type of the first
\* parameter when that is a type reference and no name is destructured,
\* else the generic argument of a function-valued variable's annotation
HasTypeBeingResolved ==
  \/ /\ HasParameter
     /\ DestructuredNames = <<>>
     /\ FirstParameter.typeNode.kind = "reference"
  \/ /\ listing.file.component.form = "variable"
     /\ DestructuredNames = <<>>
     /\ ~(HasParameter /\ FirstParameter.typeNode.kind = "literal")
     /\ AnnotationArgumentIs("reference")

TypeBeingResolved ==
  IF HasParameter /\ FirstParameter.typeNode.kind = "reference"
  THEN FirstParameter.typeNode
  ELSE AnnotationArgument

\* the text of that type, or of the type it is an alias of
WrapperText ==
  IF /\ getTypeAlias(listing.file, getText(TypeBeingResolved)).found
     /\ getTypeAlias(listing.file, getText(TypeBeingResolved)).decl.typeNode.kind
          = "reference"
  THEN getText(getTypeAlias(listing.file, getText(TypeBeingResolved)).decl.typeNode)
  ELSE getText(TypeBeingResolved)

\* the synthetic name first, then the props of the wrapper's type argument
Wrapped(synthetic, wrapper) ==
  Unique(<<synthetic>>
         \o resolveTypeToProps(listing.file, MatchWrapper(WrapperText, wrapper).inner,
                               StackDepth).props)

\* C26: when the type a component's props come from is PropsWithChildren<T>
\* (React.-qualified or not) or PropsWithRef<T>, as the parameter's type, as
\* the generic argument of the annotation or as the target of the alias
\* named there, the list is children, respectively ref, followed by the
\* props of T, each name once.
WrapperAddsSyntheticName ==
  (listing.asked /\ ~listing.threw /\ HasTypeBeingResolved)
    => /\ MatchWrapper(WrapperText, "PropsWithChildren").matched
            => listing.props = Wrapped("children", "PropsWithChildren")
       /\ MatchWrapper(WrapperText, "PropsWithRef").matched
            => listing.props = Wrapped("ref", "PropsWithRef")

\* C30: analyzeFile returns a list for every file it is asked about,
\* whatever its type declarations, those that refer to themselves through
\* extends clauses or aliases included: it never fails on one.
SelfReferenceTerminates == listing.asked => ~listing.threw

\* the type declarations of the listed file lead from a name back to it
RECURSIVE LeadsBack(_, _, _)
LeadsBack(sourceFile, typeName, fuel) ==
  IF fuel = 0 THEN TRUE
  ELSE IF getTypeAlias(sourceFile, typeName).found
  THEN /\ getTypeAlias(sourceFile, typeName).decl.typeNode.kind = "reference"
       /\ LeadsBack(sourceFile,
                    getTypeAlias(sourceFile, typeName).decl.typeNode.name, fuel - 1)
  ELSE /\ getInterface(sourceFile, typeName).found
       /\ \E i \in 1..Len(getInterface(sourceFile, typeName).decl.extends) :
            LeadsBack(sourceFile,
                      getInterface(sourceFile, typeName).decl.extends[i].name, fuel - 1)

\* analyzeFile fails only on declarations that refer to themselves
FailsOnlyOnSelfReference ==
  listing.threw => LeadsBack(listing.file, <<"P">>, StackDepth)

====
